---- MODULE Spec2Model ----
(***************************************************************************)
(* State-machine model of src-tauri/src/lib.rs: the run_action             *)
(* orchestrator (local and ssh branches) and init_local_repo.              *)
(*                                                                         *)
(* Text values are sequences of one-character strings so that trim() is    *)
(* computed; an Option<T> is a sequence of length 0 (None) or 1 (Some).    *)
(* Every external command is one action; its exit status and the part of   *)
(* its standard output the code reads are chosen by the environment.       *)
(***************************************************************************)
EXTENDS Integers, Sequences, FiniteSets, TLC

VARIABLES
    pc,              \* position of the call in progress; "idle" before and "returned" /
                     \* "init_returned" after it
    req,             \* RunActionRequest fields read after validation
    steps,           \* steps: Vec<StepResult> of the call in progress
    br_step,         \* local mode: the branch step, held back until after head_step
    current_branch,  \* current_branch
    has_commits,     \* has_commits
    clean,           \* clean
    outcome,         \* Option<ActionOutcome> returned by the last finished call
    init_args,       \* the arguments of the init_local_repo call that has returned
    reply,           \* the call of another command or helper function and what it returned
    earlier,         \* the outcome of the init_local_repo call that the last one repeated
    race,            \* two run_action calls in progress at once on one working tree
    fs,              \* what local_path is on disk: "missing", "file", "dir", "repo"
    HEAD,            \* the branch HEAD of the repository at local_path points to
    origin           \* the URL of its remote origin

vars == <<pc, req, steps, br_step, current_branch, has_commits, clean, outcome, init_args, reply, earlier, race, fs, HEAD, origin>>

\* what run_action and init_local_repo never touch
tools == <<reply, earlier, race>>

\* what outlives a call
disk == <<fs, HEAD, origin>>

----------------------------------------------------------------------------
(* Bounds of the input sets. *)

\* longest run of blanks offered as an optional text field
MaxPad == 1

\* longest text handed to shell_escape_posix_single
MaxLen == 3

\* most lines in the output of git ls-remote
MaxLines == 3

----------------------------------------------------------------------------
(* Option and text helpers. *)

None == <<>>
Some(x) == <<x>>
IsSome(o) == Len(o) = 1

\* char::is_whitespace on the characters the model uses
IsWhite(c) == c \in {" ", "\n", "\t"}

RECURSIVE trim_start(_)
trim_start(s) ==
    IF s = <<>> THEN <<>>
    ELSE IF IsWhite(Head(s)) THEN trim_start(Tail(s)) ELSE s

RECURSIVE trim_end(_)
trim_end(s) ==
    IF s = <<>> THEN <<>>
    ELSE IF IsWhite(s[Len(s)]) THEN trim_end(SubSeq(s, 1, Len(s) - 1)) ELSE s

\* str::trim
trim(s) == trim_end(trim_start(s))

\* Option<String>::unwrap_or_default
unwrap_or_default(o) == IF IsSome(o) THEN o[1] ELSE <<>>

\* str::contains
contains(hay, needle) ==
    \E i \in 1..(Len(hay) - Len(needle) + 1) :
        SubSeq(hay, i, i + Len(needle) - 1) = needle

\* the head-existence probe is not counted
all_ok_ButProbe(ss) ==
    \A i \in 1..Len(ss) : ss[i].op = "rev-parse" \/ ss[i].ok

\* one successful step is enough
all_ok_Any(ss) ==
    \E i \in 1..Len(ss) : ss[i].ok

\* Iterator::all(|s| s.ok)
all_ok(ss) == \A i \in 1..Len(ss) : ss[i].ok

RECURSIVE Pad(_)
Pad(n) == IF n = 0 THEN <<>> ELSE <<" ">> \o Pad(n - 1)

----------------------------------------------------------------------------
(* Input sets. *)

Modes == {"local", "ssh", "ftp"}
Actions == {"pull", "push", "merge", "rebase"}
EnvKeys == {"dev", "prod"}
Branches == {<<"m">>, <<"d">>}

\* an optional text field: absent, blank, or one word with blanks before it
OptTexts(word) ==
    {None} \cup {Some(Pad(k)) : k \in 0..MaxPad} \cup {Some(Pad(k) \o word) : k \in 0..MaxPad}

\* mergeFromBranch is read only by merge and commitMessage only by push: the
\* other actions are offered them absent
Requests ==
    {r \in [mode : Modes, action : Actions, env_key : EnvKeys, branch : Branches,
            merge_from_branch : OptTexts(<<"f">>), commit_message : OptTexts(<<"w">>)] :
        /\ r.action # "merge" => r.merge_from_branch = None
        /\ r.action # "push" => r.commit_message = None}

\* request fields read only by validation
PathInputs == {<<>>, <<" ">>, <<"/", "r">>}
HostUserInputs == {<<>>, <<"h">>}

\* process exit status: success or failure
ExitCodes == {0, 1}

\* what the commands print on standard output, as far as the code reads it
BranchOutputs == {<<"m", "\n">>, <<"d", "\n">>}
StatusOutputs == {<<>>, <<"\n">>, <<"M", " ", "a", "\n">>}
SavedWorkingDirectory == <<"Saved", " ", "working", " ", "directory">>
StashOutputs == {<<"No", " ", "local", " ", "changes">>,
                 SavedWorkingDirectory \o <<" ", "and", " ", "index">>}

FsStates == {"missing", "file", "dir", "repo"}

----------------------------------------------------------------------------
(* StepResult, ActionError, ActionOutcome. *)

\* run_capture: the StepResult of one local process; ok = status.success()
run_capture(op, arg, exit_code, stdout) ==
    [via |-> "local", op |-> op, arg |-> arg, ok |-> (exit_code = 0),
     exit_code |-> exit_code, stdout |-> stdout]

\* ssh_run: the same through the ssh executable
ssh_run(op, arg, exit_code, stdout) ==
    [run_capture(op, arg, exit_code, stdout) EXCEPT !.via = "ssh"]

NoStep == run_capture("none", <<>>, 0, <<>>)

\* an error code "CAT-NNNN", kept as its category and its number
Code(category, number) == <<category, number>>

ActionError(code, severity, message) ==
    [code |-> code, severity |-> severity, message |-> message]

\* a failure is reported without the steps made so far
fail_NoTrace(code, severity, message, ss, r) ==
    [ok |-> FALSE, mode |-> r.mode, action |-> r.action, env_key |-> r.env_key,
     steps |-> <<>>, error |-> Some(ActionError(code, severity, message))]

\* a failure is reported under a fixed environment key
fail_FixedEnvKey(code, severity, message, ss, r) ==
    [ok |-> FALSE, mode |-> r.mode, action |-> r.action, env_key |-> "dev",
     steps |-> ss, error |-> Some(ActionError(code, severity, message))]

\* the fail closure of run_action
fail(code, severity, message, ss, r) ==
    [ok |-> FALSE, mode |-> r.mode, action |-> r.action, env_key |-> r.env_key,
     steps |-> ss, error |-> Some(ActionError(code, severity, message))]

\* ok taken from the last step alone
LocalOutcome_LastStepOnly(ss, r) ==
    LET ok == ss[Len(ss)].ok IN
    [ok |-> ok, mode |-> r.mode, action |-> r.action, env_key |-> r.env_key,
     steps |-> ss,
     error |-> IF ok THEN None
               ELSE Some(ActionError(Code("GIT", "0002"), "ERROR", "git command failed"))]

\* the ActionOutcome built at the end of the local branch
LocalOutcome(ss, r) ==
    LET ok == all_ok(ss) IN
    [ok |-> ok, mode |-> r.mode, action |-> r.action, env_key |-> r.env_key,
     steps |-> ss,
     error |-> IF ok THEN None
               ELSE Some(ActionError(Code("GIT", "0002"), "ERROR", "git command failed"))]

\* the error is attached whatever ok is
SshOutcome_AlwaysError(ss, r) ==
    [ok |-> all_ok(ss), mode |-> r.mode, action |-> r.action, env_key |-> r.env_key,
     steps |-> ss,
     error |-> Some(ActionError(Code("SSH", "0200"), "ERROR", "remote command failed"))]

\* the ActionOutcome built at the end of the ssh branch
SshOutcome(ss, r) ==
    LET ok == all_ok(ss) IN
    [ok |-> ok, mode |-> r.mode, action |-> r.action, env_key |-> r.env_key,
     steps |-> ss,
     error |-> IF ok THEN None
               ELSE Some(ActionError(Code("SSH", "0200"), "ERROR", "remote command failed"))]

NoRequest ==
    [mode |-> "local", action |-> "pull", env_key |-> "dev", branch |-> <<"m">>,
     merge_from_branch |-> None, commit_message |-> None]

NoInitArgs ==
    [git_found |-> FALSE, local_path |-> <<>>, repo_url |-> None, default_branch |-> None]

\* no other command or helper has been called
NoReply == [fn |-> "none"]

\* no two calls of run_action are in progress at once
NoRace == [tree |-> "none"]

\* the branch `git init` leaves HEAD on before any symbolic-ref
GitInitBranch == <<"m">>

----------------------------------------------------------------------------
(* Transitions shared by the actions. *)

Between == pc = "idle"

\* return o from the call in progress
Return(o, ss) ==
    /\ pc' = "returned"
    /\ steps' = ss
    /\ outcome' = Some(o)

\* a call starts: fresh locals
Fresh ==
    /\ br_step' = NoStep
    /\ current_branch' = <<>>
    /\ has_commits' = FALSE
    /\ clean' = FALSE

Init ==
    /\ pc = "idle"
    /\ req = NoRequest
    /\ steps = <<>>
    /\ br_step = NoStep
    /\ current_branch = <<>>
    /\ has_commits = FALSE
    /\ clean = FALSE
    /\ outcome = None
    /\ init_args = NoInitArgs
    /\ reply = NoReply
    /\ earlier = None
    /\ race = NoRace
    /\ fs \in FsStates
    /\ HEAD = IF fs = "repo" THEN Some(GitInitBranch) ELSE None
    /\ origin = None

----------------------------------------------------------------------------
(* run_action: validation of the action and dispatch on the mode. *)

\* the action check lets one more action name through
SupportedAction_Wider(a) == a \in {"pull", "push", "merge", "rebase"}

\* lib.rs 1119: req.action is pull, push or merge
SupportedAction(a) == a \in {"pull", "push", "merge"}

\* lib.rs 1119-1128: the action is none of pull / push / merge
RunActionUnknownAction ==
    /\ Between
    /\ \E r \in Requests :
        /\ ~SupportedAction(r.action)
        /\ req' = r
        /\ Return(fail(Code("CFG", "0001"), "ERROR", "unknown action", <<>>, r), <<>>)
    /\ Fresh
    /\ init_args' = NoInitArgs
    /\ UNCHANGED tools
    /\ UNCHANGED disk

\* lib.rs 1762-1769: the mode is neither local nor ssh
RunActionUnknownMode ==
    /\ Between
    /\ \E r \in Requests :
        /\ SupportedAction(r.action)
        /\ r.mode # "local"
        /\ r.mode # "ssh"
        /\ req' = r
        /\ Return(fail(Code("CFG", "0002"), "ERROR", "unknown mode (expected local|ssh)",
                       <<>>, r), <<>>)
    /\ Fresh
    /\ init_args' = NoInitArgs
    /\ UNCHANGED tools
    /\ UNCHANGED disk

\* the commit message taken as it was sent
commit_msg_NoTrim(r) == unwrap_or_default(r.commit_message)

\* lib.rs 1273-1274 (1335-1336, 1581-1582, 1637-1638):
\* req.commit_message.clone().unwrap_or_default().trim()
commit_msg(r) == trim(unwrap_or_default(r.commit_message))

----------------------------------------------------------------------------
(* run_action, mode = "local". *)

\* lib.rs 1130-1184: git executable and localPath checks; the outcome of the
\* checks, None when they all pass
LocalValidation(r, git_found, local_path) ==
    IF ~git_found
        THEN Some(fail(Code("GIT", "0001"), "FATAL", "git not found", <<>>, r))
    ELSE IF trim(local_path) = <<>>
        THEN Some(fail(Code("FS", "0100"), "ERROR", "localPath is required", <<>>, r))
    ELSE IF fs = "missing"
        THEN Some(fail(Code("FS", "0101"), "ERROR", "localPath does not exist", <<>>, r))
    ELSE IF fs = "file"
        THEN Some(fail(Code("FS", "0101"), "ERROR", "localPath is not a directory", <<>>, r))
    ELSE IF fs # "repo"
        THEN Some(fail(Code("FS", "0102"), "ERROR", "localPath is not a git repository",
                       <<>>, r))
    ELSE None

LocalValidate ==
    /\ Between
    /\ \E r \in Requests, git_found \in BOOLEAN, local_path \in PathInputs :
        /\ SupportedAction(r.action)
        /\ r.mode = "local"
        /\ req' = r
        /\ LET v == LocalValidation(r, git_found, local_path) IN
           IF IsSome(v)
               THEN Return(v[1], <<>>)
               ELSE /\ pc' = "l_branch"
                    /\ steps' = <<>>
                    /\ outcome' = None
    /\ Fresh
    /\ init_args' = NoInitArgs
    /\ UNCHANGED tools
    /\ UNCHANGED disk

\* lib.rs 1186-1210: git symbolic-ref --short HEAD
LocalDetectBranch ==
    /\ pc = "l_branch"
    /\ \E exit_code \in ExitCodes, stdout \in BranchOutputs :
        LET s == run_capture("symbolic-ref", <<>>, exit_code, stdout) IN
        /\ current_branch' = trim(s.stdout)
        /\ IF ~s.ok
               THEN /\ Return(fail(Code("GIT", "0100"), "ERROR", "failed to get current branch",
                                   Append(steps, s), req), Append(steps, s))
                    /\ UNCHANGED br_step
               ELSE /\ br_step' = s
                    /\ pc' = "l_head"
                    /\ UNCHANGED <<steps, outcome>>
    /\ UNCHANGED <<req, init_args, tools, has_commits, clean, disk>>

\* lib.rs 1212-1226: git rev-parse --verify HEAD; head_step is pushed, then br_step
LocalHeadExists ==
    /\ pc = "l_head"
    /\ \E exit_code \in ExitCodes :
        LET head_step == run_capture("rev-parse", <<>>, exit_code, <<>>) IN
        /\ has_commits' = head_step.ok
        /\ steps' = Append(Append(steps, head_step), br_step)
    /\ pc' = "l_status"
    /\ UNCHANGED <<req, init_args, tools, br_step, current_branch, clean, outcome, disk>>

\* the tree is clean only when status printed nothing at all
git_status_clean_NoTrim(exit_code, stdout) ==
    LET s == run_capture("status", <<>>, exit_code, stdout) IN
    [step |-> s, is_ok |-> s.ok, clean |-> (s.stdout = <<>>)]

\* lib.rs 547-564: git status --porcelain --ignore-submodules
git_status_clean(exit_code, stdout) ==
    LET s == run_capture("status", <<>>, exit_code, stdout) IN
    [step |-> s, is_ok |-> s.ok, clean |-> (trim(s.stdout) = <<>>)]

\* lib.rs 1243-1244 and 1258: where the run goes once clean is known
LocalAfterStatus(action, c) ==
    IF action # "push" /\ ~c THEN "l_stash" ELSE "l_dirty_push"

\* lib.rs 1228-1241: clean check
LocalStatus ==
    /\ pc = "l_status"
    /\ \E exit_code \in ExitCodes, stdout \in StatusOutputs :
        LET g == git_status_clean(exit_code, stdout) IN
        IF ~g.is_ok
            THEN /\ Return(fail(Code("GIT", "0101"), "ERROR", "git status failed",
                                Append(steps, g.step), req), Append(steps, g.step))
                 /\ UNCHANGED clean
            ELSE /\ clean' = g.clean
                 /\ steps' = Append(steps, g.step)
                 /\ pc' = LocalAfterStatus(req.action, g.clean)
                 /\ UNCHANGED outcome
    /\ UNCHANGED <<req, init_args, tools, br_step, current_branch, has_commits, disk>>

\* the stash step keeps the success flag of its process
StashLenient_Strict(s) == s

\* lib.rs 1250-1253: a stash that saved the working directory counts as ok
StashLenient(s) ==
    IF contains(s.stdout, SavedWorkingDirectory) THEN [s EXCEPT !.ok = TRUE] ELSE s

\* git stash reported that it saved the changes of the working tree
HasSavedStash(ss) ==
    \E i \in 1..Len(ss) : ss[i].op = "stash" /\ contains(ss[i].stdout, SavedWorkingDirectory)

\* lib.rs 1243-1255: git stash --include-untracked
LocalStash ==
    /\ pc = "l_stash"
    /\ \E exit_code \in ExitCodes, stdout \in StashOutputs :
        steps' = Append(steps, StashLenient(run_capture("stash", <<>>, exit_code, stdout)))
    /\ pc' = "l_dirty_push"
    /\ UNCHANGED <<req, init_args, tools, br_step, current_branch, has_commits, clean, outcome, disk>>

\* the dirty push is committed on whatever branch is checked out
LocalDirtyPushCheck_NoBranchGuard ==
    /\ pc = "l_dirty_push"
    /\ IF req.action = "push" /\ ~clean
           THEN IF commit_msg(req) = <<>>
                    THEN Return(fail(Code("GIT", "0104"), "ERROR",
                                     "push requires commitMessage when working tree is dirty",
                                     steps, req), steps)
                    ELSE /\ pc' = "l_add"
                         /\ UNCHANGED <<steps, outcome>>
           ELSE /\ pc' = "l_fetch"
                /\ UNCHANGED <<steps, outcome>>
    /\ UNCHANGED <<req, init_args, tools, br_step, current_branch, has_commits, clean, disk>>

\* lib.rs 1258-1284: a dirty push needs the target branch and a commit message
LocalDirtyPushCheck ==
    /\ pc = "l_dirty_push"
    /\ IF req.action = "push" /\ ~clean
           THEN IF current_branch # req.branch
                    THEN Return(fail(Code("GIT", "0103"), "ERROR",
                                     "working tree is dirty on a different branch",
                                     steps, req), steps)
                ELSE IF commit_msg(req) = <<>>
                    THEN Return(fail(Code("GIT", "0104"), "ERROR",
                                     "push requires commitMessage when working tree is dirty",
                                     steps, req), steps)
                ELSE /\ pc' = "l_add"
                     /\ UNCHANGED <<steps, outcome>>
           ELSE /\ pc' = "l_fetch"
                /\ UNCHANGED <<steps, outcome>>
    /\ UNCHANGED <<req, init_args, tools, br_step, current_branch, has_commits, clean, disk>>

\* a failed add is recorded and the run goes on to the commit
LocalAdd_ContinuesOnFailure ==
    /\ pc = "l_add"
    /\ \E exit_code \in ExitCodes :
        steps' = Append(steps, run_capture("add", <<>>, exit_code, <<>>))
    /\ pc' = "l_commit"
    /\ UNCHANGED <<req, init_args, tools, br_step, current_branch, has_commits, clean, outcome, disk>>

\* lib.rs 1286-1296: git add -A
LocalAdd ==
    /\ pc = "l_add"
    /\ \E exit_code \in ExitCodes :
        LET add_step == run_capture("add", <<>>, exit_code, <<>>) IN
        IF ~add_step.ok
            THEN Return(fail(Code("GIT", "0105"), "ERROR", "git add failed",
                             Append(steps, add_step), req), Append(steps, add_step))
            ELSE /\ steps' = Append(steps, add_step)
                 /\ pc' = "l_commit"
                 /\ UNCHANGED outcome
    /\ UNCHANGED <<req, init_args, tools, br_step, current_branch, has_commits, clean, disk>>

\* the commit of the dirty tree leaves has_commits as the probe set it
LocalCommit_KeepsFlag ==
    /\ pc = "l_commit"
    /\ \E exit_code \in ExitCodes :
        LET msg == commit_msg(req)
            commit_step == run_capture("commit", msg, exit_code, <<>>) IN
        IF ~commit_step.ok
            THEN Return(fail(Code("GIT", "0106"), "ERROR", "git commit failed",
                             Append(steps, commit_step), req),
                        Append(steps, commit_step))
            ELSE /\ steps' = Append(steps, commit_step)
                 /\ pc' = "l_fetch"
                 /\ UNCHANGED outcome
    /\ UNCHANGED <<req, init_args, tools, br_step, current_branch, has_commits, clean, disk>>

\* lib.rs 1298-1317: git commit -m <msg>
LocalCommit ==
    /\ pc = "l_commit"
    /\ \E exit_code \in ExitCodes :
        LET msg == commit_msg(req)
            commit_step == run_capture("commit", msg, exit_code, <<>>) IN
        IF ~commit_step.ok
            THEN /\ Return(fail(Code("GIT", "0106"), "ERROR", "git commit failed",
                                Append(steps, commit_step), req),
                           Append(steps, commit_step))
                 /\ UNCHANGED has_commits
            ELSE /\ steps' = Append(steps, commit_step)
                 /\ has_commits' = TRUE
                 /\ pc' = "l_fetch"
                 /\ UNCHANGED outcome
    /\ UNCHANGED <<req, init_args, tools, br_step, current_branch, clean, disk>>

\* a failed fetch ends the run
LocalFetch_StopsOnFailure ==
    /\ pc = "l_fetch"
    /\ \E exit_code \in ExitCodes :
        LET s == run_capture("fetch", <<>>, exit_code, <<>>) IN
        IF ~s.ok
            THEN Return(LocalOutcome(Append(steps, s), req), Append(steps, s))
            ELSE /\ steps' = Append(steps, s)
                 /\ pc' = "l_checkout"
                 /\ UNCHANGED outcome
    /\ UNCHANGED <<req, init_args, tools, br_step, current_branch, has_commits, clean, disk>>

\* lib.rs 1319-1324: git fetch origin
LocalFetch ==
    /\ pc = "l_fetch"
    /\ \E exit_code \in ExitCodes :
        steps' = Append(steps, run_capture("fetch", <<>>, exit_code, <<>>))
    /\ pc' = "l_checkout"
    /\ UNCHANGED <<req, init_args, tools, br_step, current_branch, has_commits, clean, outcome, disk>>

\* the branch checked out is the current one, not the requested one
LocalCheckout_CurrentBranch ==
    /\ pc = "l_checkout"
    /\ \E exit_code \in ExitCodes :
        LET s == run_capture("checkout", current_branch, exit_code, <<>>) IN
        /\ steps' = Append(steps, s)
        /\ HEAD' = IF s.ok THEN Some(current_branch) ELSE HEAD
    /\ pc' = "l_empty_commit"
    /\ UNCHANGED <<req, init_args, tools, br_step, current_branch, has_commits, clean, outcome, fs, origin>>

\* lib.rs 1326-1331: git checkout <branch>
LocalCheckout ==
    /\ pc = "l_checkout"
    /\ \E exit_code \in ExitCodes :
        LET s == run_capture("checkout", req.branch, exit_code, <<>>) IN
        /\ steps' = Append(steps, s)
        /\ HEAD' = IF s.ok THEN Some(req.branch) ELSE HEAD
    /\ pc' = "l_empty_commit"
    /\ UNCHANGED <<req, init_args, tools, br_step, current_branch, has_commits, clean, outcome, fs, origin>>

\* lib.rs 1333-1374: first push of a repository without commits
LocalEmptyCommit ==
    /\ pc = "l_empty_commit"
    /\ IF req.action = "push" /\ ~has_commits
           THEN LET msg == commit_msg(req) IN
                IF msg = <<>>
                    THEN /\ Return(fail(Code("GIT", "0107"), "ERROR",
                                 "push requires commitMessage when repository has no commits",
                                 steps, req), steps)
                         /\ UNCHANGED has_commits
                    ELSE \E exit_code \in ExitCodes :
                        LET empty_commit ==
                                run_capture("commit --allow-empty", msg, exit_code, <<>>) IN
                        IF ~empty_commit.ok
                            THEN /\ Return(fail(Code("GIT", "0108"), "ERROR",
                                                "git commit --allow-empty failed",
                                                Append(steps, empty_commit), req),
                                           Append(steps, empty_commit))
                                 /\ UNCHANGED has_commits
                            ELSE /\ steps' = Append(steps, empty_commit)
                                 /\ has_commits' = TRUE
                                 /\ pc' = "l_tail"
                                 /\ UNCHANGED outcome
           ELSE /\ pc' = "l_tail"
                /\ UNCHANGED <<steps, has_commits, outcome>>
    /\ UNCHANGED <<req, init_args, tools, br_step, current_branch, clean, disk>>

\* after the pull the stash is popped
LocalPull_PopsStash ==
    /\ pc = "l_tail"
    /\ req.action = "pull"
    /\ \E exit_code \in ExitCodes :
        steps' = IF HasSavedStash(steps)
                     THEN Append(Append(steps, run_capture("pull", req.branch, exit_code, <<>>)),
                                 run_capture("stash pop", <<>>, 0, <<>>))
                     ELSE Append(steps, run_capture("pull", req.branch, exit_code, <<>>))
    /\ pc' = "l_done"
    /\ UNCHANGED <<req, init_args, tools, br_step, current_branch, has_commits, clean, outcome, disk>>

\* lib.rs 1376-1389: git pull --ff-only origin <branch>
LocalPull ==
    /\ pc = "l_tail"
    /\ req.action = "pull"
    /\ \E exit_code \in ExitCodes :
        steps' = Append(steps, run_capture("pull", req.branch, exit_code, <<>>))
    /\ pc' = "l_done"
    /\ UNCHANGED <<req, init_args, tools, br_step, current_branch, has_commits, clean, outcome, disk>>

\* lib.rs 1391-1403: git push origin <branch>
LocalPush ==
    /\ pc = "l_tail"
    /\ req.action = "push"
    /\ \E exit_code \in ExitCodes :
        steps' = Append(steps, run_capture("push", req.branch, exit_code, <<>>))
    /\ pc' = "l_done"
    /\ UNCHANGED <<req, init_args, tools, br_step, current_branch, has_commits, clean, outcome, disk>>

\* lib.rs 1405-1422: mergeFromBranch check, then git fetch origin <from>
LocalMergeFetch ==
    /\ pc = "l_tail"
    /\ req.action = "merge"
    /\ LET from == unwrap_or_default(req.merge_from_branch) IN
       IF trim(from) = <<>>
           THEN Return(fail(Code("CFG", "0003"), "ERROR", "mergeFromBranch is required for merge",
                            steps, req), steps)
           ELSE /\ \E exit_code \in ExitCodes :
                    steps' = Append(steps, run_capture("fetch", from, exit_code, <<>>))
                /\ pc' = "l_merge"
                /\ UNCHANGED outcome
    /\ UNCHANGED <<req, init_args, tools, br_step, current_branch, has_commits, clean, disk>>

\* lib.rs 1424-1434: git merge --no-ff <from>
LocalMerge ==
    /\ pc = "l_merge"
    /\ \E exit_code \in ExitCodes :
        steps' = Append(steps, run_capture("merge",
                            unwrap_or_default(req.merge_from_branch), exit_code, <<>>))
    /\ pc' = "l_merge_push"
    /\ UNCHANGED <<req, init_args, tools, br_step, current_branch, has_commits, clean, outcome, disk>>

\* lib.rs 1436-1446: git push origin <branch>
LocalMergePush ==
    /\ pc = "l_merge_push"
    /\ \E exit_code \in ExitCodes :
        steps' = Append(steps, run_capture("push", req.branch, exit_code, <<>>))
    /\ pc' = "l_done"
    /\ UNCHANGED <<req, init_args, tools, br_step, current_branch, has_commits, clean, outcome, disk>>

\* lib.rs 1449-1466: ok = steps.iter().all(|s| s.ok)
LocalDone ==
    /\ pc = "l_done"
    /\ Return(LocalOutcome(steps, req), steps)
    /\ UNCHANGED <<req, init_args, tools, br_step, current_branch, has_commits, clean, disk>>

LocalNext ==
    \/ LocalValidate
    \/ LocalDetectBranch
    \/ LocalHeadExists
    \/ LocalStatus
    \/ LocalStash
    \/ LocalDirtyPushCheck
    \/ LocalAdd
    \/ LocalCommit
    \/ LocalFetch
    \/ LocalCheckout
    \/ LocalEmptyCommit
    \/ LocalPull
    \/ LocalPush
    \/ LocalMergeFetch
    \/ LocalMerge
    \/ LocalMergePush
    \/ LocalDone

----------------------------------------------------------------------------
(* run_action, mode = "ssh". *)

\* a quote is escaped by a backslash alone, inside the quoted text
RECURSIVE replace_quote_Backslash(_)
replace_quote_Backslash(s) ==
    IF s = <<>> THEN <<>>
    ELSE IF Head(s) = "'"
        THEN <<"\\", "'">> \o replace_quote_Backslash(Tail(s))
        ELSE <<Head(s)>> \o replace_quote_Backslash(Tail(s))

\* lib.rs 566-569: ' -> '\'' and the whole wrapped in single quotes
RECURSIVE replace_quote(_)
replace_quote(s) ==
    IF s = <<>> THEN <<>>
    ELSE IF Head(s) = "'"
        THEN <<"'", "\\", "'", "'">> \o replace_quote(Tail(s))
        ELSE <<Head(s)>> \o replace_quote(Tail(s))

shell_escape_posix_single(s) == <<"'">> \o replace_quote(s) \o <<"'">>

\* a missing ssh executable is reported as an ordinary error
SshValidation_NotFoundIsError(r, ssh_found, host, user, remote_path) ==
    IF ~ssh_found
        THEN Some(fail(Code("SSH", "0001"), "ERROR", "ssh not found", <<>>, r))
    ELSE IF trim(host) = <<>> \/ trim(user) = <<>>
        THEN Some(fail(Code("CFG", "0302"), "ERROR", "ssh host/user is required", <<>>, r))
    ELSE IF trim(remote_path) = <<>>
        THEN Some(fail(Code("CFG", "0303"), "ERROR", "remotePath is required", <<>>, r))
    ELSE None

\* lib.rs 1469-1501: ssh executable, host/user and remotePath checks; the
\* outcome of the checks, None when they all pass
SshValidation(r, ssh_found, host, user, remote_path) ==
    IF ~ssh_found
        THEN Some(fail(Code("SSH", "0001"), "FATAL", "ssh not found", <<>>, r))
    ELSE IF trim(host) = <<>> \/ trim(user) = <<>>
        THEN Some(fail(Code("CFG", "0302"), "ERROR", "ssh host/user is required", <<>>, r))
    ELSE IF trim(remote_path) = <<>>
        THEN Some(fail(Code("CFG", "0303"), "ERROR", "remotePath is required", <<>>, r))
    ELSE None

SshValidate ==
    /\ Between
    /\ \E r \in Requests, ssh_found \in BOOLEAN, host \in HostUserInputs,
          user \in HostUserInputs, remote_path \in PathInputs :
        /\ SupportedAction(r.action)
        /\ r.mode = "ssh"
        /\ req' = r
        /\ LET v == SshValidation(r, ssh_found, host, user, remote_path) IN
           IF IsSome(v)
               THEN Return(v[1], <<>>)
               ELSE /\ pc' = "s_branch"
                    /\ steps' = <<>>
                    /\ outcome' = None
    /\ Fresh
    /\ init_args' = NoInitArgs
    /\ UNCHANGED tools
    /\ UNCHANGED disk

\* a failed branch detection is recorded and the run goes on
SshDetectBranch_ContinuesOnFailure ==
    /\ pc = "s_branch"
    /\ \E exit_code \in ExitCodes, stdout \in BranchOutputs :
        LET s == ssh_run("symbolic-ref", <<>>, exit_code, stdout) IN
        /\ current_branch' = trim(s.stdout)
        /\ br_step' = s
        /\ steps' = Append(steps, s)
    /\ pc' = "s_head"
    /\ UNCHANGED <<req, init_args, tools, has_commits, clean, outcome, disk>>

\* lib.rs 1503-1522: git symbolic-ref --short HEAD || git rev-parse --abbrev-ref HEAD
SshDetectBranch ==
    /\ pc = "s_branch"
    /\ \E exit_code \in ExitCodes, stdout \in BranchOutputs :
        LET s == ssh_run("symbolic-ref", <<>>, exit_code, stdout) IN
        /\ current_branch' = trim(s.stdout)
        /\ br_step' = s
        /\ IF ~s.ok
               THEN Return(fail(Code("SSH", "0201"), "ERROR", "failed to get remote branch",
                                Append(steps, s), req), Append(steps, s))
               ELSE /\ steps' = Append(steps, s)
                    /\ pc' = "s_head"
                    /\ UNCHANGED outcome
    /\ UNCHANGED <<req, init_args, tools, has_commits, clean, disk>>

\* a failed head probe ends the run
SshHeadExists_StopsOnFailure ==
    /\ pc = "s_head"
    /\ \E exit_code \in ExitCodes :
        LET head_step == ssh_run("rev-parse", <<>>, exit_code, <<>>) IN
        /\ has_commits' = head_step.ok
        /\ IF ~head_step.ok
               THEN Return(fail(Code("SSH", "0201"), "ERROR", "repository has no commits",
                                Append(steps, head_step), req), Append(steps, head_step))
               ELSE /\ steps' = Append(steps, head_step)
                    /\ pc' = "s_status"
                    /\ UNCHANGED outcome
    /\ UNCHANGED <<req, init_args, tools, br_step, current_branch, clean, disk>>

\* lib.rs 1524-1531: git rev-parse --verify HEAD
SshHeadExists ==
    /\ pc = "s_head"
    /\ \E exit_code \in ExitCodes :
        LET head_step == ssh_run("rev-parse", <<>>, exit_code, <<>>) IN
        /\ has_commits' = head_step.ok
        /\ steps' = Append(steps, head_step)
    /\ pc' = "s_status"
    /\ UNCHANGED <<req, init_args, tools, br_step, current_branch, clean, outcome, disk>>

\* lib.rs 1554-1555 and 1569: where the run goes once clean is known
SshAfterStatus(action, c) ==
    IF action # "push" /\ ~c THEN "s_stash" ELSE "s_dirty_push"

\* lib.rs 1533-1552: git status --porcelain --ignore-submodules
SshStatus ==
    /\ pc = "s_status"
    /\ \E exit_code \in ExitCodes, stdout \in StatusOutputs :
        LET st_step == ssh_run("status", <<>>, exit_code, stdout) IN
        IF ~st_step.ok
            THEN /\ Return(fail(Code("SSH", "0201"), "ERROR", "git status failed on remote",
                                Append(steps, st_step), req), Append(steps, st_step))
                 /\ UNCHANGED clean
            ELSE /\ clean' = (trim(st_step.stdout) = <<>>)
                 /\ steps' = Append(steps, st_step)
                 /\ pc' = SshAfterStatus(req.action, trim(st_step.stdout) = <<>>)
                 /\ UNCHANGED outcome
    /\ UNCHANGED <<req, init_args, tools, br_step, current_branch, has_commits, disk>>

\* lib.rs 1554-1566: git stash --include-untracked
SshStash ==
    /\ pc = "s_stash"
    /\ \E exit_code \in ExitCodes, stdout \in StashOutputs :
        steps' = Append(steps, StashLenient(ssh_run("stash", <<>>, exit_code, stdout)))
    /\ pc' = "s_dirty_push"
    /\ UNCHANGED <<req, init_args, tools, br_step, current_branch, has_commits, clean, outcome, disk>>

\* lib.rs 1635-1636 and 1672: the empty commit comes before the fetch
SshBeforeFetch(action, hc) ==
    IF action = "push" /\ ~hc THEN "s_empty_commit" ELSE "s_fetch"

\* lib.rs 1568-1592: a dirty push needs the target branch and a commit message
SshDirtyPushCheck ==
    /\ pc = "s_dirty_push"
    /\ IF req.action = "push" /\ ~clean
           THEN IF current_branch # req.branch
                    THEN Return(fail(Code("GIT", "0104"), "ERROR",
                             "working tree is dirty on a non-target branch (checkout target branch first)",
                             steps, req), steps)
                ELSE IF commit_msg(req) = <<>>
                    THEN Return(fail(Code("GIT", "0103"), "ERROR",
                             "commitMessage is required for push when there are uncommitted changes",
                             steps, req), steps)
                ELSE /\ pc' = "s_add"
                     /\ UNCHANGED <<steps, outcome>>
           ELSE /\ pc' = SshBeforeFetch(req.action, has_commits)
                /\ UNCHANGED <<steps, outcome>>
    /\ UNCHANGED <<req, init_args, tools, br_step, current_branch, has_commits, clean, disk>>

\* lib.rs 1594-1611: git add -A
SshAdd ==
    /\ pc = "s_add"
    /\ \E exit_code \in ExitCodes :
        LET add_step == ssh_run("add", <<>>, exit_code, <<>>) IN
        IF ~add_step.ok
            THEN Return(fail(Code("SSH", "0201"), "ERROR", "git add failed on remote",
                             Append(steps, add_step), req), Append(steps, add_step))
            ELSE /\ steps' = Append(steps, add_step)
                 /\ pc' = "s_commit"
                 /\ UNCHANGED outcome
    /\ UNCHANGED <<req, init_args, tools, br_step, current_branch, has_commits, clean, disk>>

\* lib.rs 1613-1633: git commit -m <msg>
SshCommit ==
    /\ pc = "s_commit"
    /\ \E exit_code \in ExitCodes :
        LET msg == commit_msg(req)
            commit_step ==
                ssh_run("commit", shell_escape_posix_single(msg), exit_code, <<>>) IN
        IF ~commit_step.ok
            THEN /\ Return(fail(Code("SSH", "0201"), "ERROR", "git commit failed on remote",
                                Append(steps, commit_step), req),
                           Append(steps, commit_step))
                 /\ UNCHANGED has_commits
            ELSE /\ steps' = Append(steps, commit_step)
                 /\ has_commits' = TRUE
                 /\ pc' = SshBeforeFetch(req.action, TRUE)
                 /\ UNCHANGED outcome
    /\ UNCHANGED <<req, init_args, tools, br_step, current_branch, clean, disk>>

\* lib.rs 1635-1670: first push of a repository without commits
SshEmptyCommit ==
    /\ pc = "s_empty_commit"
    /\ LET msg == commit_msg(req) IN
       IF msg = <<>>
           THEN /\ Return(fail(Code("GIT", "0107"), "ERROR",
                        "push requires commitMessage when repository has no commits",
                        steps, req), steps)
                /\ UNCHANGED has_commits
           ELSE \E exit_code \in ExitCodes :
               LET empty_commit_step ==
                       ssh_run("commit --allow-empty", shell_escape_posix_single(msg),
                               exit_code, <<>>) IN
               IF ~empty_commit_step.ok
                   THEN /\ Return(fail(Code("SSH", "0201"), "ERROR",
                                       "git commit --allow-empty failed on remote",
                                       Append(steps, empty_commit_step), req),
                                  Append(steps, empty_commit_step))
                        /\ UNCHANGED has_commits
                   ELSE /\ steps' = Append(steps, empty_commit_step)
                        /\ has_commits' = TRUE
                        /\ pc' = "s_fetch"
                        /\ UNCHANGED outcome
    /\ UNCHANGED <<req, init_args, tools, br_step, current_branch, clean, disk>>

\* lib.rs 1672-1677: git fetch origin
SshFetch ==
    /\ pc = "s_fetch"
    /\ \E exit_code \in ExitCodes :
        steps' = Append(steps, ssh_run("fetch", <<>>, exit_code, <<>>))
    /\ pc' = "s_checkout"
    /\ UNCHANGED <<req, init_args, tools, br_step, current_branch, has_commits, clean, outcome, disk>>

\* lib.rs 1679-1685: git checkout <branch>
SshCheckout ==
    /\ pc = "s_checkout"
    /\ \E exit_code \in ExitCodes :
        steps' = Append(steps, ssh_run("checkout", shell_escape_posix_single(req.branch),
                                       exit_code, <<>>))
    /\ pc' = "s_tail"
    /\ UNCHANGED <<req, init_args, tools, br_step, current_branch, has_commits, clean, outcome, disk>>

\* lib.rs 1687-1694: git pull --ff-only origin <branch>
SshPull ==
    /\ pc = "s_tail"
    /\ req.action = "pull"
    /\ \E exit_code \in ExitCodes :
        steps' = Append(steps, ssh_run("pull", shell_escape_posix_single(req.branch),
                                       exit_code, <<>>))
    /\ pc' = "s_done"
    /\ UNCHANGED <<req, init_args, tools, br_step, current_branch, has_commits, clean, outcome, disk>>

\* lib.rs 1696-1703: git push origin <branch>
SshPush ==
    /\ pc = "s_tail"
    /\ req.action = "push"
    /\ \E exit_code \in ExitCodes :
        steps' = Append(steps, ssh_run("push", shell_escape_posix_single(req.branch),
                                       exit_code, <<>>))
    /\ pc' = "s_done"
    /\ UNCHANGED <<req, init_args, tools, br_step, current_branch, has_commits, clean, outcome, disk>>

\* lib.rs 1705-1724: mergeFromBranch check, then git fetch origin <from>
SshMergeFetch ==
    /\ pc = "s_tail"
    /\ req.action = "merge"
    /\ LET from == trim(unwrap_or_default(req.merge_from_branch)) IN
       IF from = <<>>
           THEN Return(fail(Code("CFG", "0201"), "ERROR", "mergeFromBranch is required for merge",
                            steps, req), steps)
           ELSE /\ \E exit_code \in ExitCodes :
                    steps' = Append(steps, ssh_run("fetch", shell_escape_posix_single(from),
                                                   exit_code, <<>>))
                /\ pc' = "s_merge"
                /\ UNCHANGED outcome
    /\ UNCHANGED <<req, init_args, tools, br_step, current_branch, has_commits, clean, disk>>

\* lib.rs 1726-1732: git merge --no-ff origin/<from>
SshMerge ==
    /\ pc = "s_merge"
    /\ \E exit_code \in ExitCodes :
        LET from == trim(unwrap_or_default(req.merge_from_branch))
            origin_from == <<"o", "r", "i", "g", "i", "n", "/">> \o from IN
        steps' = Append(steps, ssh_run("merge", shell_escape_posix_single(origin_from),
                                       exit_code, <<>>))
    /\ pc' = "s_merge_push"
    /\ UNCHANGED <<req, init_args, tools, br_step, current_branch, has_commits, clean, outcome, disk>>

\* lib.rs 1734-1739: git push origin <branch>
SshMergePush ==
    /\ pc = "s_merge_push"
    /\ \E exit_code \in ExitCodes :
        steps' = Append(steps, ssh_run("push", shell_escape_posix_single(req.branch),
                                       exit_code, <<>>))
    /\ pc' = "s_done"
    /\ UNCHANGED <<req, init_args, tools, br_step, current_branch, has_commits, clean, outcome, disk>>

\* the outcome is returned only when every step succeeded
SshDone_OnlySuccessReturns ==
    /\ pc = "s_done"
    /\ all_ok(steps)
    /\ Return(SshOutcome(steps, req), steps)
    /\ UNCHANGED <<req, init_args, tools, br_step, current_branch, has_commits, clean, disk>>

\* lib.rs 1742-1759: ok = steps.iter().all(|s| s.ok)
SshDone ==
    /\ pc = "s_done"
    /\ Return(SshOutcome(steps, req), steps)
    /\ UNCHANGED <<req, init_args, tools, br_step, current_branch, has_commits, clean, disk>>

SshNext ==
    \/ SshValidate
    \/ SshDetectBranch
    \/ SshHeadExists
    \/ SshStatus
    \/ SshStash
    \/ SshDirtyPushCheck
    \/ SshAdd
    \/ SshCommit
    \/ SshEmptyCommit
    \/ SshFetch
    \/ SshCheckout
    \/ SshPull
    \/ SshPush
    \/ SshMergeFetch
    \/ SshMerge
    \/ SshMergePush
    \/ SshDone

----------------------------------------------------------------------------
(* init_local_repo. *)

\* str::lines
RECURSIVE lines_from(_, _)
lines_from(s, cur) ==
    IF s = <<>> THEN (IF cur = <<>> THEN <<>> ELSE <<cur>>)
    ELSE IF Head(s) = "\n" THEN <<cur>> \o lines_from(Tail(s), <<>>)
    ELSE lines_from(Tail(s), Append(cur, Head(s)))

lines(s) == lines_from(s, <<>>)

\* what `git remote` prints
RemoteOutputs == {<<>>, <<"origin", "\n">>, <<"upstream", "\n">>}

\* lib.rs 917-926: a step that could not be run
step_error(op) ==
    [via |-> "local", op |-> op, arg |-> <<>>, ok |-> FALSE, exit_code |-> -1,
     stdout |-> <<>>]

\* a step recorded without running a process (lib.rs 60-67, 89-96)
synthetic_step(op) ==
    [via |-> "local", op |-> op, arg |-> <<>>, ok |-> TRUE, exit_code |-> 0,
     stdout |-> <<>>]

InitOutcome(ok, ss, error) ==
    [ok |-> ok, mode |-> "local", action |-> "init", env_key |-> "init",
     steps |-> ss, error |-> error]

\* lib.rs 113-152: git init, symbolic-ref HEAD, and the origin remote; a holds
\* the arguments and e what the processes return. In a local_path that is a
\* file no process can be started (exit_code -1).
InitSteps(ss, at, a, e) ==
    LET code(x) == IF at = "file" THEN -1 ELSE x
        out(o) == IF at = "file" THEN <<>> ELSE o
        s1 == Append(ss, run_capture("init", <<>>, code(e.init), <<>>))
        branch == trim(IF IsSome(a.default_branch) THEN a.default_branch[1]
                       ELSE <<"m", "a", "i", "n">>)
        s2 == IF branch # <<>>
                  THEN Append(s1, run_capture("symbolic-ref HEAD",
                                  <<"refs/heads/">> \o branch, code(e.ref), <<>>))
                  ELSE s1
        url == trim(unwrap_or_default(a.repo_url))
        rem == run_capture("remote", <<>>, code(e.rem), out(e.rem_out))
        has_origin ==
            rem.ok /\ \E i \in 1..Len(lines(rem.stdout)) :
                          trim(lines(rem.stdout)[i]) = <<"origin">>
        s3 == IF IsSome(a.repo_url) /\ url # <<>>
                  THEN Append(Append(s2, rem),
                              IF has_origin
                                  THEN run_capture("remote set-url origin", url,
                                                   code(e.url), <<>>)
                                  ELSE run_capture("remote add origin", url,
                                                   code(e.url), <<>>))
                  ELSE s2
    IN s3

\* lib.rs 116-119: the branch HEAD is pointed to, empty for none
init_branch(a) ==
    trim(IF IsSome(a.default_branch) THEN a.default_branch[1] ELSE <<"m", "a", "i", "n">>)

\* a call that fails leaves no repository behind
InitEffect_UndoneOnFailure(ss0, ss, at, a) ==
    LET url == trim(unwrap_or_default(a.repo_url))
    IN  IF ~all_ok(ss)
            THEN [fs |-> at, HEAD |-> HEAD, origin |-> origin]
            ELSE [fs |-> "repo",
                  HEAD |-> IF init_branch(a) # <<>>
                               THEN Some(init_branch(a)) ELSE Some(GitInitBranch),
                  origin |-> IF url # <<>> THEN Some(url) ELSE origin]

\* lib.rs 113-152: what the git processes that succeeded leave in the
\* repository; ss0 holds the steps recorded before git init
InitEffect(ss0, ss, at, a) ==
    LET k == Len(ss0) + 1
        url == trim(unwrap_or_default(a.repo_url))
    IN  IF ~ss[k].ok
            THEN [fs |-> at, HEAD |-> HEAD, origin |-> origin]
            ELSE [fs |-> "repo",
                  HEAD |-> IF init_branch(a) # <<>> /\ ss[k + 1].ok
                               THEN Some(init_branch(a)) ELSE Some(GitInitBranch),
                  origin |-> IF url # <<>> /\ ss[Len(ss)].ok THEN Some(url) ELSE origin]

\* the .git marker is never looked for
already_initialized_Never(at) == FALSE

\* lib.rs 88: dir.join(".git").exists()
already_initialized(at) == at = "repo"

\* lib.rs 14-173: the outcome and what local_path is afterwards
init_local_repo(a, e) ==
    IF ~a.git_found
        THEN [fs |-> fs, HEAD |-> HEAD, origin |-> origin,
              outcome |-> InitOutcome(FALSE, <<>>, Some(ActionError(Code("GIT", "0001"),
                  "FATAL", "git not found. Run preflight and set gitPath if needed.")))]
    ELSE IF trim(a.local_path) = <<>>
        THEN [fs |-> fs, HEAD |-> HEAD, origin |-> origin,
              outcome |-> InitOutcome(FALSE, <<>>, Some(ActionError(Code("GIT", "0401"),
                  "ERROR", "localPath is required")))]
    ELSE IF fs = "missing" /\ e.mkdir # 0
        THEN [fs |-> fs, HEAD |-> HEAD, origin |-> origin,
              outcome |-> InitOutcome(FALSE, <<step_error("mkdir -p")>>,
                  Some(ActionError(Code("GIT", "0402"), "ERROR",
                                   "failed to create directory")))]
    ELSE
        LET ss0 == IF fs = "missing" THEN <<synthetic_step("mkdir -p")>> ELSE <<>>
            at == IF fs = "missing" THEN "dir" ELSE fs
        IN  IF already_initialized(at)
                THEN [fs |-> at, HEAD |-> HEAD, origin |-> origin,
                      outcome |-> InitOutcome(TRUE,
                          Append(ss0, synthetic_step("[skip] already initialized")),
                          Some(ActionError(Code("GIT", "0403"), "INFO",
                                           ".git already exists (already initialized)")))]
                ELSE
                    LET ss == InitSteps(ss0, at, a, e)
                        ok == all_ok(ss)
                    IN  [fs |-> InitEffect(ss0, ss, at, a).fs,
                         HEAD |-> InitEffect(ss0, ss, at, a).HEAD,
                         origin |-> InitEffect(ss0, ss, at, a).origin,
                         outcome |-> InitOutcome(ok, ss,
                             IF ok THEN None
                             ELSE Some(ActionError(Code("GIT", "0499"), "ERROR",
                                                   "init failed (see steps)")))]

\* the arguments of init_local_repo
InitArgs ==
    [git_found : BOOLEAN, local_path : PathInputs,
     repo_url : OptTexts(<<"u">>), default_branch : OptTexts(<<"d">>)]

\* what the directory creation and the four git processes return
InitResults ==
    [mkdir : ExitCodes, init : ExitCodes, ref : ExitCodes, rem : ExitCodes,
     rem_out : RemoteOutputs, url : ExitCodes]

InitLocalRepo ==
    /\ Between
    /\ \E a \in InitArgs, e \in InitResults :
        LET r == init_local_repo(a, e) IN
        /\ init_args' = a
        /\ UNCHANGED tools
        /\ fs' = r.fs
        /\ HEAD' = r.HEAD
        /\ origin' = r.origin
        /\ pc' = "init_returned"
        /\ steps' = r.outcome.steps
        /\ outcome' = Some(r.outcome)
    /\ req' = NoRequest
    /\ Fresh

\* lib.rs 1773-1789: every command invocation is a call of its own; nothing
\* but the file system outlives the returned outcome
Reset ==
    /\ pc \in {"returned", "init_returned"}
    /\ pc' = "idle"
    /\ req' = NoRequest
    /\ steps' = <<>>
    /\ outcome' = None
    /\ Fresh
    /\ init_args' = NoInitArgs
    /\ earlier' = None
    /\ UNCHANGED <<reply, race>>
    /\ UNCHANGED disk

\* lib.rs 1773-1789: the caller invokes init_local_repo again with the
\* arguments of the call that has just returned (one repetition is followed)
InitRetry ==
    /\ pc = "init_returned"
    /\ earlier = None
    /\ \E e \in InitResults :
        LET r == init_local_repo(init_args, e) IN
        /\ fs' = r.fs
        /\ HEAD' = r.HEAD
        /\ origin' = r.origin
        /\ steps' = r.outcome.steps
        /\ outcome' = Some(r.outcome)
    /\ earlier' = outcome
    /\ UNCHANGED <<pc, req, init_args, reply, race, br_step, current_branch, has_commits, clean>>

Next ==
    \/ RunActionUnknownAction
    \/ RunActionUnknownMode
    \/ LocalNext
    \/ SshNext
    \/ InitLocalRepo
    \/ InitRetry
    \/ Reset

Spec == Init /\ [][Next]_vars

\* a call of run_action that has passed validation goes on: every command
\* it runs returns (lib.rs 395: cmd.output() blocks until the process ends)
Continue ==
    /\ pc \notin {"idle", "returned", "init_returned", "tool_returned", "escaped"}
    /\ (LocalNext \/ SshNext)

\* the calls of run_action alone
RunNext ==
    \/ RunActionUnknownAction
    \/ RunActionUnknownMode
    \/ LocalNext
    \/ SshNext
    \/ Reset

LiveSpec == Init /\ [][RunNext]_vars /\ WF_vars(Continue)

-----------------------------------------------------------------------------
(* Two calls of run_action in progress at once on one working tree: a push
   and a pull in local mode, each past its probes, followed through the
   working-tree steps of lib.rs 1228-1317.  git answers as it does on a
   healthy repository: the working tree is "dirty", "staged" or "clean". *)

Runs == {"push", "pull"}

\* git status --porcelain: one line per changed path
git_status_prints(tree) == IF tree = "clean" THEN <<>> ELSE <<"M", " ", "a", "\n">>

\* git stash --include-untracked: saves the changes and cleans the tree
git_stash_does(tree) ==
    IF tree = "clean"
        THEN [tree |-> tree, saved |-> 0, stdout |-> <<"No", " ", "local", " ", "changes">>]
        ELSE [tree |-> "clean", saved |-> 1,
              stdout |-> SavedWorkingDirectory \o <<" ", "and", " ", "index">>]

\* git add -A: stages what has changed
git_add_does(tree) == IF tree = "dirty" THEN "staged" ELSE tree

\* git commit -m: commits what is staged, fails when there is nothing to commit
git_commit_does(tree) ==
    IF tree = "staged" THEN [tree |-> "clean", exit_code |-> 0]
                       ELSE [tree |-> tree, exit_code |-> 1]

\* the call of each run waits until no other run is between its status check
\* and its return
may_step_Serialized(r) ==
    \A o \in Runs \ {r} : race.run[o].pc \in {"l_status", "returned"}

\* lib.rs 1094-1095: run_action takes the request and nothing else: no lock,
\* no managed state, nothing a run could wait on
may_step(r) == TRUE

\* the run r has taken a step that found the tree as `found` and left it as `tree`
RaceMove(r, at, c, step, found, tree, saved) ==
    /\ race' = [race EXCEPT !.tree = tree,
                            !.stashed = @ + saved,
                            !.run[r] = [pc |-> at, clean |-> c,
                                        steps |-> Append(@.steps, step),
                                        found |-> Append(@.found, found)]]
    /\ UNCHANGED <<pc, req, steps, br_step, current_branch, has_commits, clean, outcome,
                   init_args, reply, earlier, disk>>

\* lib.rs 1773-1789: two invocations of run_action are in progress, both past
\* their probes, on a working tree that has changes or has none
RaceBegin ==
    /\ pc = "idle"
    /\ race = NoRace
    /\ \E t \in {"dirty", "clean"} :
        race' = [tree |-> t, stashed |-> 0,
                 run |-> [r \in Runs |-> [pc |-> "l_status", clean |-> FALSE,
                                          steps |-> <<>>, found |-> <<>>]]]
    /\ UNCHANGED <<pc, req, steps, br_step, current_branch, has_commits, clean, outcome,
                   init_args, reply, earlier, disk>>

\* lib.rs 1228-1241: clean check of one of the runs
RaceStatus ==
    /\ race # NoRace
    /\ \E r \in Runs :
        /\ race.run[r].pc = "l_status"
        /\ may_step(r)
        /\ LET g == git_status_clean(0, git_status_prints(race.tree)) IN
           RaceMove(r, LocalAfterStatus(r, g.clean), g.clean, g.step, race.tree,
                    race.tree, 0)

\* lib.rs 1243-1255: git stash --include-untracked of a run that saw changes
RaceStash ==
    /\ race # NoRace
    /\ \E r \in Runs :
        /\ race.run[r].pc = "l_stash"
        /\ may_step(r)
        /\ LET g == git_stash_does(race.tree) IN
           RaceMove(r, "l_dirty_push", race.run[r].clean,
                    StashLenient(run_capture("stash", <<>>, 0, g.stdout)), race.tree,
                    g.tree, g.saved)

\* lib.rs 1258-1284: a push that saw changes goes on to add them (it is on its
\* target branch and has a commit message); every other run goes on to fetch
RaceDirtyPushCheck ==
    /\ race # NoRace
    /\ \E r \in Runs :
        /\ race.run[r].pc = "l_dirty_push"
        /\ may_step(r)
        /\ race' = [race EXCEPT !.run[r].pc =
                        IF r = "push" /\ ~race.run[r].clean THEN "l_add" ELSE "l_fetch"]
    /\ UNCHANGED <<pc, req, steps, br_step, current_branch, has_commits, clean, outcome,
                   init_args, reply, earlier, disk>>

\* lib.rs 1286-1296: git add -A
RaceAdd ==
    /\ race # NoRace
    /\ \E r \in Runs :
        /\ race.run[r].pc = "l_add"
        /\ may_step(r)
        /\ RaceMove(r, "l_commit", race.run[r].clean, run_capture("add", <<>>, 0, <<>>),
                    race.tree, git_add_does(race.tree), 0)

\* lib.rs 1298-1317: git commit -m <msg>; a failed commit ends the run
RaceCommit ==
    /\ race # NoRace
    /\ \E r \in Runs :
        /\ race.run[r].pc = "l_commit"
        /\ may_step(r)
        /\ LET g == git_commit_does(race.tree)
               commit_step == run_capture("commit", <<"m">>, g.exit_code, <<>>) IN
           RaceMove(r, IF commit_step.ok THEN "l_fetch" ELSE "returned",
                    race.run[r].clean, commit_step, race.tree, g.tree, 0)

\* lib.rs 1319-1450: the rest of the run, which is not followed here
RaceRest ==
    /\ race # NoRace
    /\ \E r \in Runs :
        /\ race.run[r].pc = "l_fetch"
        /\ may_step(r)
        /\ race' = [race EXCEPT !.run[r].pc = "returned"]
    /\ UNCHANGED <<pc, req, steps, br_step, current_branch, has_commits, clean, outcome,
                   init_args, reply, earlier, disk>>

\* both runs have returned
RaceEnd ==
    /\ race # NoRace
    /\ \A r \in Runs : race.run[r].pc = "returned"
    /\ race' = NoRace
    /\ UNCHANGED <<pc, req, steps, br_step, current_branch, has_commits, clean, outcome,
                   init_args, reply, earlier, disk>>

RaceNext ==
    \/ RaceBegin
    \/ RaceStatus
    \/ RaceStash
    \/ RaceDirtyPushCheck
    \/ RaceAdd
    \/ RaceCommit
    \/ RaceRest
    \/ RaceEnd

RaceSpec == Init /\ [][RaceNext]_vars

----------------------------------------------------------------------------
(* ssh_connect and ssh_detect_remote_git. *)

\* (a fixed message is a text of one piece, so that it compares with the
\* output of a process)
\* what a finished process hands back: exit status, standard output and error
ProcessResult(exit_code, stdout, stderr) ==
    [ok |-> (exit_code = 0), exit_code |-> exit_code, stdout |-> stdout, stderr |-> stderr]

\* lib.rs 1039: the text the liveness command echoes
Sentinel == <<"G", "I", "T", "S", "H", "L", "C", "_", "S", "S", "H", "_", "O", "K">>

PingOutputs == {<<>>, Sentinel \o <<"\n">>, <<"h", "i", "\n">>}
StderrOutputs == {<<>>, <<"e">>}
FindOutputs == {<<>>, <<"\n">>, <<"/", "g", "\n">>}
VersionOutputs == {<<>>, <<"2", "\n">>}

PingResults ==
    {ProcessResult(c, o, e) : c \in ExitCodes, o \in PingOutputs, e \in StderrOutputs}
FindResults ==
    {ProcessResult(c, o, e) : c \in ExitCodes, o \in FindOutputs, e \in StderrOutputs}
VersionResults ==
    {ProcessResult(c, o, e) : c \in ExitCodes, o \in VersionOutputs, e \in StderrOutputs}

\* lib.rs 952-956 (984-988, 1043-1047): stderr when it is not blank, else stdout
failure_text(p) == IF trim(p.stderr) # <<>> THEN p.stderr ELSE p.stdout

ToolCheck(found, path, version, ok, error) ==
    [found |-> found, path |-> path, version |-> version, ok |-> ok, error |-> error]

\* lib.rs 1015-1021: the remote git of a connection that was not made
NotChecked == ToolCheck(FALSE, None, None, FALSE, Some(<<"remote git not checked">>))

\* str::lines().next().unwrap_or("")
first_line(t) == IF lines(t) = <<>> THEN <<>> ELSE lines(t)[1]

\* lib.rs 939-1004: find is the result of the lookup script, ver that of
\* `<path> --version`; ran lists the remote commands that were run
ssh_detect_remote_git(find, ver) ==
    LET path == trim(first_line(find.stdout)) IN
    IF ~find.ok
        THEN [ran |-> <<"find">>,
              check |-> ToolCheck(FALSE, None, None, FALSE, Some(failure_text(find)))]
    ELSE IF path = <<>>
        THEN [ran |-> <<"find">>,
              check |-> ToolCheck(FALSE, None, None, FALSE,
                                  Some(<<"git not found on remote (PATH or standard locations)">>))]
    ELSE IF ~ver.ok
        THEN [ran |-> <<"find", "version">>,
              check |-> ToolCheck(TRUE, Some(path), None, FALSE, Some(failure_text(ver)))]
    ELSE [ran |-> <<"find", "version">>,
          check |-> ToolCheck(TRUE, Some(path), Some(trim(ver.stdout)), TRUE, None)]

SshConnectWire(ok, ssh_ok, stderr, remote_git, ran) ==
    [ok |-> ok, ssh_ok |-> ssh_ok, stderr |-> stderr, remote_git |-> remote_git, ran |-> ran]

\* the liveness phase trusts the exit status alone
ssh_alive_NoSentinel(ping) == ping.ok

\* lib.rs 1040: ping.ok && ping.stdout.contains("GITSHLC_SSH_OK")
ssh_alive(ping) == ping.ok /\ contains(ping.stdout, Sentinel)

\* lib.rs 1007-1076: a holds the arguments and e what the remote commands return
ssh_connect(a, e) ==
    IF ~a.ssh_found
        THEN SshConnectWire(FALSE, FALSE, Some(<<"ssh not found. preflight required">>),
                            NotChecked, <<>>)
    ELSE IF trim(a.host) = <<>> \/ trim(a.user) = <<>>
        THEN SshConnectWire(FALSE, FALSE, Some(<<"host/user is required">>), NotChecked, <<>>)
    ELSE IF ~ssh_alive(e.ping)
        THEN SshConnectWire(FALSE, FALSE, Some(failure_text(e.ping)), NotChecked, <<"echo">>)
    ELSE
        LET d == ssh_detect_remote_git(e.find, e.ver)
            remote_git == d.check
            ssh_ok == ssh_alive(e.ping)
            ok == ssh_ok /\ remote_git.ok
        IN  SshConnectWire(ok, ssh_ok, IF ok THEN None ELSE remote_git.error, remote_git,
                           <<"echo">> \o d.ran)

\* the arguments of ssh_connect
SshConnectArgs == [ssh_found : BOOLEAN, host : HostUserInputs, user : HostUserInputs]

\* what the three remote commands return
SshConnectResults == [ping : PingResults, find : FindResults, ver : VersionResults]

SshConnect ==
    /\ Between
    /\ \E a \in SshConnectArgs, e \in SshConnectResults :
        reply' = [fn |-> "ssh_connect", arg |-> a, env |-> e, ret |-> ssh_connect(a, e)]
    /\ pc' = "tool_returned"
    /\ UNCHANGED <<req, steps, br_step, current_branch, has_commits, clean, outcome, init_args, earlier, race, disk>>

\* the reply has been delivered; the next call starts afresh
ToolReset ==
    /\ pc = "tool_returned"
    /\ pc' = "idle"
    /\ reply' = NoReply
    /\ UNCHANGED <<req, steps, br_step, current_branch, has_commits, clean, outcome, init_args, earlier, race, disk>>

----------------------------------------------------------------------------
(* shell_escape_posix_single and the shell that reads its result. *)

\* the characters of the escaped texts: quote, backslash, blank, a shell
\* metacharacter and a plain character
ShellAlphabet == {"'", "\\", " ", "$", "a"}

ShellTexts == UNION {[1..n -> ShellAlphabet] : n \in 0..MaxLen}

\* unquoted, these end a word or start an expansion
ShellMeta == {"$", ";", "&", "|", "<", ">", "(", ")", "*", "?", "\n"}

\* what the shell makes of text that is not plain words
NotAWord == <<"<not a word>">>

\* The words a POSIX shell splits a command line into: inside single quotes
\* every character stands for itself up to the closing quote; outside, a
\* backslash makes the next character stand for itself, a blank ends the
\* word, and a metacharacter is not part of a plain word.
RECURSIVE sh_scan(_, _, _, _, _)
sh_scan(t, quoted, cur, inword, acc) ==
    IF t = <<>>
        THEN IF quoted THEN Append(acc, NotAWord)
             ELSE IF inword THEN Append(acc, cur) ELSE acc
    ELSE IF quoted
        THEN IF Head(t) = "'"
                 THEN sh_scan(Tail(t), FALSE, cur, TRUE, acc)
                 ELSE sh_scan(Tail(t), TRUE, Append(cur, Head(t)), TRUE, acc)
    ELSE IF Head(t) = "'"
        THEN sh_scan(Tail(t), TRUE, cur, TRUE, acc)
    ELSE IF Head(t) = "\\"
        THEN IF Tail(t) = <<>>
                 THEN sh_scan(<<>>, FALSE, Append(cur, "\\"), TRUE, acc)
                 ELSE sh_scan(Tail(Tail(t)), FALSE, Append(cur, Head(Tail(t))), TRUE, acc)
    ELSE IF Head(t) \in {" ", "\t"}
        THEN sh_scan(Tail(t), FALSE, <<>>, FALSE, IF inword THEN Append(acc, cur) ELSE acc)
    ELSE IF Head(t) \in ShellMeta
        THEN sh_scan(Tail(t), FALSE, <<>>, FALSE,
                     Append(IF inword THEN Append(acc, cur) ELSE acc, NotAWord))
    ELSE sh_scan(Tail(t), FALSE, Append(cur, Head(t)), TRUE, acc)

sh_words(t) == sh_scan(t, FALSE, <<>>, FALSE, <<>>)

\* lib.rs 566-569 applied to a text
ShellEscape ==
    /\ Between
    /\ \E s \in ShellTexts :
        reply' = [fn |-> "shell_escape_posix_single", arg |-> s,
                  ret |-> shell_escape_posix_single(s)]
    /\ pc' = "escaped"
    /\ UNCHANGED <<req, steps, br_step, current_branch, has_commits, clean, outcome, init_args, earlier, race, disk>>

\* lib.rs 571-598: the remote shell reads the escaped text as part of its
\* command line
ShellRead ==
    /\ pc = "escaped"
    /\ reply' = [fn |-> "sh", arg |-> reply.ret, escaped |-> reply.arg,
                 ret |-> sh_words(reply.ret)]
    /\ pc' = "tool_returned"
    /\ UNCHANGED <<req, steps, br_step, current_branch, has_commits, clean, outcome, init_args, earlier, race, disk>>

----------------------------------------------------------------------------
(* list_branches. *)

\* lib.rs 602-607
BranchListWire(ok, branches, stderr) ==
    [ok |-> ok, branches |-> branches, stderr |-> stderr]

\* lines git ls-remote --heads can print, and lines that are not heads:
\* a tag, a line without a tab, a head without a name
LsRemoteLines ==
    { <<"9", "\t", "refs/heads/", "a">>,
      <<"9", "\t", "refs/heads/", "B">>,
      <<"9", "\t", "refs/heads/", "a", "B">>,
      <<"9", "\t", "refs/tags/", "a">>,
      <<"9", " ", "refs/heads/", "a">>,
      <<"9", "\t", "refs/heads/">> }

RECURSIVE join_lines(_)
join_lines(ls) ==
    IF ls = <<>> THEN <<>> ELSE Head(ls) \o <<"\n">> \o join_lines(Tail(ls))

LsRemoteOutputs ==
    {join_lines(ls) : ls \in UNION {[1..n -> LsRemoteLines] : n \in 0..MaxLines}}

\* the ls-remote step: exit status, stdout, stderr
LsRemoteResults ==
    {ProcessResult(0, o, <<>>) : o \in LsRemoteOutputs}
        \cup {ProcessResult(1, o, e) : o \in {<<>>, <<"o">>}, e \in StderrOutputs}

\* str::split_once('\t'): what follows the first tab, if there is a tab
RECURSIVE after_tab(_)
after_tab(line) ==
    IF line = <<>> THEN None
    ELSE IF Head(line) = "\t" THEN Some(Tail(line))
    ELSE after_tab(Tail(line))

\* str::strip_prefix("refs/heads/")
strip_heads(r) ==
    IF r # <<>> /\ Head(r) = "refs/heads/" THEN Some(Tail(r)) ELSE None

\* the bytes of the characters of branch names
ByteOf == ("B" :> 66) @@ ("a" :> 97)

\* String's Ord: byte by byte, a proper prefix first
RECURSIVE text_lt(_, _)
text_lt(x, y) ==
    IF y = <<>> THEN FALSE
    ELSE IF x = <<>> THEN TRUE
    ELSE IF Head(x) = Head(y) THEN text_lt(Tail(x), Tail(y))
    ELSE ByteOf[Head(x)] < ByteOf[Head(y)]

\* Vec::sort
RECURSIVE insert_sorted(_, _)
insert_sorted(x, v) ==
    IF v = <<>> THEN <<x>>
    ELSE IF text_lt(Head(v), x) THEN <<Head(v)>> \o insert_sorted(x, Tail(v))
    ELSE <<x>> \o v

RECURSIVE sort(_)
sort(v) == IF v = <<>> THEN <<>> ELSE insert_sorted(Head(v), sort(Tail(v)))

\* the vector is left as it is
dedup_Keep(v) ==
    v

\* Vec::dedup: of consecutive equal elements the first stays
RECURSIVE dedup(_)
dedup(v) ==
    IF Len(v) < 2 THEN v
    ELSE IF v[1] = v[2] THEN dedup(Tail(v))
    ELSE <<Head(v)>> \o dedup(Tail(v))

\* lib.rs 635-646: the names pushed, in the order of the lines
RECURSIVE head_names(_)
head_names(ls) ==
    IF ls = <<>> THEN <<>>
    ELSE LET r == after_tab(Head(ls))
             b == IF IsSome(r) THEN strip_heads(r[1]) ELSE None
             here == IF IsSome(b) /\ trim(b[1]) # <<>> THEN <<trim(b[1])>> ELSE <<>>
         IN  here \o head_names(Tail(ls))

\* lib.rs 609-656
list_branches(git_found, step) ==
    IF ~git_found
        THEN BranchListWire(FALSE, <<>>, Some(<<"git not found">>))
    ELSE IF ~step.ok
        THEN BranchListWire(FALSE, <<>>, Some(failure_text(step)))
    ELSE BranchListWire(TRUE, dedup(sort(head_names(lines(step.stdout)))), None)

ListBranches ==
    /\ Between
    /\ \E g \in BOOLEAN, st \in LsRemoteResults :
        reply' = [fn |-> "list_branches", git_found |-> g, step |-> st,
                  ret |-> list_branches(g, st)]
    /\ pc' = "tool_returned"
    /\ UNCHANGED <<req, steps, br_step, current_branch, has_commits, clean, outcome, init_args, earlier, race, disk>>

----------------------------------------------------------------------------
(* run_capture and ssh_run: how a process is launched. *)

\* lib.rs 383-395: the process run_capture spawns
Launch(exe, args, cwd) ==
    [exe |-> exe, args |-> args, cwd |-> cwd,
     stdin |-> "null", env |-> {<<"GIT_TERMINAL_PROMPT", "0">>}]

\* u16::to_string
RECURSIVE to_string(_)
to_string(n) ==
    LET digit == <<"0", "1", "2", "3", "4", "5", "6", "7", "8", "9">>[(n % 10) + 1] IN
    IF n < 10 THEN <<digit>> ELSE Append(to_string(n \div 10), digit)

\* lib.rs 226-233
SshConfig(host, user, port, key_path) ==
    [host |-> host, user |-> user, port |-> port, key_path |-> key_path]

SshConfigs ==
    {SshConfig(<<"h">>, <<"u">>, p, k) :
        p \in {None, Some(22), Some(2222)}, k \in OptTexts(<<"k">>)}

\* -i is given for every configured key path
identity_args_Unchecked(key_path) ==
    IF IsSome(key_path) THEN << <<"-i">>, key_path[1] >> ELSE <<>>

\* lib.rs 584-589
identity_args(key_path) ==
    IF IsSome(key_path) /\ trim(key_path[1]) # <<>>
        THEN << <<"-i">>, key_path[1] >>
        ELSE <<>>

\* lib.rs 571-598: the process ssh_run has run_capture spawn
ssh_command(cfg, remote_cmd) ==
    LET target == cfg.user \o <<"@">> \o cfg.host
        port == IF IsSome(cfg.port) THEN cfg.port[1] ELSE 22
    IN  Launch("ssh",
               << <<"-p">>, to_string(port),
                  <<"-o">>, <<"BatchMode=yes">>,
                  <<"-o">>, <<"ConnectTimeout=5">>,
                  <<"-o">>, <<"ConnectionAttempts=1">> >>
                   \o identity_args(cfg.key_path)
                   \o << target, <<"--">>, remote_cmd >>,
               None)

\* command lines of the two modes: git arguments, and the remote command
\* lines that cd into the repository and run git there
LocalArgs == { << <<"status">>, <<"--porcelain">> >>, << <<"push">>, <<"origin">>, <<"b">> >> }

RemoteCmds == { <<"cd ">> \o shell_escape_posix_single(<<"r">>) \o <<" && git status --porcelain">>,
                <<"echo GITSHLC_SSH_OK">> }

\* a local step: run_capture(git, args, Some(repo))
RunCapture ==
    /\ Between
    /\ \E a \in LocalArgs :
        reply' = [fn |-> "run_capture", ret |-> Launch("git", a, Some(<<"r">>))]
    /\ pc' = "tool_returned"
    /\ UNCHANGED <<req, steps, br_step, current_branch, has_commits, clean, outcome, init_args, earlier, race, disk>>

\* an ssh step: ssh_run(ssh, cfg, remote_cmd)
SshRun ==
    /\ Between
    /\ \E c \in SshConfigs, r \in RemoteCmds :
        reply' = [fn |-> "ssh_run", cfg |-> c, ret |-> ssh_command(c, r)]
    /\ pc' = "tool_returned"
    /\ UNCHANGED <<req, steps, br_step, current_branch, has_commits, clean, outcome, init_args, earlier, race, disk>>

\* the commands and helper functions that share no state with run_action
ToolNext ==
    \/ SshConnect
    \/ RunCapture
    \/ SshRun
    \/ ListBranches
    \/ ShellEscape
    \/ ShellRead
    \/ ToolReset

ToolSpec == Init /\ [][ToolNext]_vars

----------------------------------------------------------------------------
(* Properties. *)

\* the outcome of the run_action call that has just returned
Returned == pc = "returned"
Out == outcome[1]
ErrCode == Out.error[1].code
IsCfg(code) == code[1] = "CFG"

\* the trace holds a step of the logical command op
HasOp(ss, op) == \E i \in 1..Len(ss) : ss[i].op = op

Blank(o) == trim(unwrap_or_default(o)) = <<>>

\* the codes of the executable, path and connection checks of the two modes
ValidationCodes ==
    {Code("GIT", "0001"), Code("FS", "0100"), Code("FS", "0101"), Code("FS", "0102"),
     Code("SSH", "0001"), Code("CFG", "0302"), Code("CFG", "0303")}

\* C1: a merge request (local or ssh mode) whose mergeFromBranch is absent or
\* blank is answered with a Failed outcome carrying a CFG- code before any
\* command has run: ok is false, the trace is empty, and the code is a CFG-
\* code unless the request already failed the checks of its mode.
C1_MergeSourceCheckedBeforeAnyCommand ==
    (/\ Returned
     /\ req.action = "merge"
     /\ req.mode \in {"local", "ssh"}
     /\ Blank(req.merge_from_branch))
    => /\ ~Out.ok
       /\ IsSome(Out.error)
       /\ Out.steps = <<>>
       /\ (ErrCode \in ValidationCodes \/ IsCfg(ErrCode))

\* C2: a request whose action is not pull/push/merge, or whose mode is not
\* local/ssh, is answered with ok = false, an error with a CFG- code, and an
\* empty trace.
C2_UnsupportedRequestRejected ==
    (/\ Returned
     /\ (req.action \notin {"pull", "push", "merge"} \/ req.mode \notin {"local", "ssh"}))
    => /\ ~Out.ok
       /\ IsSome(Out.error)
       /\ IsCfg(ErrCode)
       /\ Out.steps = <<>>

\* C2 witness: a supported action in an unsupported mode has been rejected
C2_Witness ==
    /\ Returned
    /\ req.action = "push"
    /\ req.mode = "ftp"
    /\ ErrCode = Code("CFG", "0002")

\* the status step succeeded and reported changes
DirtyStatus(ss) ==
    \E i \in 1..Len(ss) :
        ss[i].op = "status" /\ ss[i].ok /\ trim(ss[i].stdout) # <<>>

\* the status step succeeded and reported nothing
CleanStatus(ss) ==
    \E i \in 1..Len(ss) :
        ss[i].op = "status" /\ ss[i].ok /\ trim(ss[i].stdout) = <<>>

ErrMessage == Out.error[1].message

\* C3: a push whose status step reports a dirty tree while the current branch
\* is not the target branch stops with the 'dirty on a different branch' error
\* of its mode, and its trace holds no add, commit, fetch, checkout or push.
C3_DirtyPushOnOtherBranchStops ==
    (/\ Returned
     /\ req.action = "push"
     /\ DirtyStatus(Out.steps)
     /\ current_branch # req.branch)
    => /\ ~Out.ok
       /\ IsSome(Out.error)
       /\ ErrMessage =
              IF req.mode = "local"
                  THEN "working tree is dirty on a different branch"
                  ELSE "working tree is dirty on a non-target branch (checkout target branch first)"
       /\ \A op \in {"add", "commit", "commit --allow-empty", "fetch", "checkout", "push"} :
              ~HasOp(Out.steps, op)

\* C3 witness: a dirty push on another branch has returned, in ssh mode
C3_Witness ==
    /\ Returned
    /\ req.action = "push"
    /\ req.mode = "ssh"
    /\ DirtyStatus(Out.steps)
    /\ current_branch # req.branch
    /\ IsSome(req.commit_message)
    /\ ~Blank(req.commit_message)

\* C4: a push whose tree is dirty on the target branch and whose commit
\* message is absent or blank stops with the 'commit message required' error
\* of its mode before any add step (and so before any later step).
C4_DirtyPushNeedsMessage ==
    (/\ Returned
     /\ req.action = "push"
     /\ DirtyStatus(Out.steps)
     /\ current_branch = req.branch
     /\ Blank(req.commit_message))
    => /\ ~Out.ok
       /\ IsSome(Out.error)
       /\ ErrMessage =
              IF req.mode = "local"
                  THEN "push requires commitMessage when working tree is dirty"
                  ELSE "commitMessage is required for push when there are uncommitted changes"
       /\ Out.steps[Len(Out.steps)].op = "status"
       /\ \A op \in {"add", "commit", "commit --allow-empty", "fetch", "checkout", "push"} :
              ~HasOp(Out.steps, op)

\* C4 witness: a dirty push on the target branch with a blank (not absent)
\* commit message has returned
C4_Witness ==
    /\ Returned
    /\ req.action = "push"
    /\ DirtyStatus(Out.steps)
    /\ current_branch = req.branch
    /\ req.commit_message = Some(<<" ">>)

\* the argument the checkout / pull / push of the target branch is given
TargetArg == IF req.mode = "ssh" THEN shell_escape_posix_single(req.branch) ELSE req.branch

\* C5: once a run has executed the checkout step it executes the tail of its
\* action before it returns: pull for pull, push for push, and fetch of the
\* source, merge, push for merge.
C5_TailFollowsCheckout ==
    Returned =>
        \A i \in 1..Len(Out.steps) :
            Out.steps[i].op = "checkout" =>
                /\ req.action = "pull" =>
                       \E j \in (i + 1)..Len(Out.steps) : Out.steps[j].op = "pull"
                /\ req.action = "push" =>
                       \E j \in (i + 1)..Len(Out.steps) : Out.steps[j].op = "push"
                /\ req.action = "merge" =>
                       \E j \in (i + 1)..Len(Out.steps) :
                           /\ j + 2 <= Len(Out.steps)
                           /\ Out.steps[j].op = "fetch"
                           /\ Out.steps[j + 1].op = "merge"
                           /\ Out.steps[j + 2].op = "push"

\* C6: in a pull or merge on a clean tree, a failed 'fetch origin' step is
\* followed in the trace, immediately, by the checkout of the target branch.
C6_CheckoutAfterFailedFetch ==
    (/\ Returned
     /\ req.action \in {"pull", "merge"}
     /\ CleanStatus(Out.steps))
    => \A i \in 1..Len(Out.steps) :
           (Out.steps[i].op = "fetch" /\ Out.steps[i].arg = <<>> /\ ~Out.steps[i].ok)
           => /\ i < Len(Out.steps)
              /\ Out.steps[i + 1].op = "checkout"
              /\ Out.steps[i + 1].arg = TargetArg

\* C6 witness: a clean merge whose fetch of origin failed has returned
C6_Witness ==
    /\ Returned
    /\ req.action = "merge"
    /\ CleanStatus(Out.steps)
    /\ \E i \in 1..Len(Out.steps) :
           Out.steps[i].op = "fetch" /\ Out.steps[i].arg = <<>> /\ ~Out.steps[i].ok

\* the head-existence probe failed: the repository has no commits
NoCommits(ss) == \E i \in 1..Len(ss) : ss[i].op = "rev-parse" /\ ~ss[i].ok

\* C7: in a push on a repository without commits and with a clean tree, the
\* commit message is checked and the empty commit is made before the fetch:
\* without a message the run has executed neither fetch nor checkout, the
\* empty commit precedes every fetch, and a failed empty commit is the last step.
C7_EmptyCommitBeforeFetch ==
    (/\ Returned
     /\ req.action = "push"
     /\ NoCommits(Out.steps)
     /\ CleanStatus(Out.steps))
    => /\ Blank(req.commit_message) =>
              (~HasOp(Out.steps, "fetch") /\ ~HasOp(Out.steps, "checkout"))
       /\ \A i \in 1..Len(Out.steps) :
              Out.steps[i].op = "commit --allow-empty" =>
                  /\ \A j \in 1..Len(Out.steps) : Out.steps[j].op = "fetch" => i < j
                  /\ ~Out.steps[i].ok => i = Len(Out.steps)

\* a call of run_action or of init_local_repo has returned
AnyReturned == pc \in {"returned", "init_returned"}

\* the outcome was built at the end of the function, not by an early return
ReachedDone(o) ==
    \/ o.error = None
    \/ o.error[1].code \in {Code("GIT", "0002"), Code("SSH", "0200"), Code("GIT", "0499")}

\* C8: in every outcome of run_action and init_local_repo ok = true implies
\* that every step of the trace is ok, and in an outcome built at the end of
\* the run ok is true exactly when every step of the trace is ok.
C8_OkIsAndOfSteps ==
    AnyReturned =>
        LET every == \A i \in 1..Len(Out.steps) : Out.steps[i].ok IN
        /\ Out.ok => every
        /\ ReachedDone(Out) => (Out.ok <=> every)

\* C8 witness: a run reached its end with a failed step in the middle of the
\* trace and a successful last step
C8_Witness ==
    /\ Returned
    /\ ReachedDone(Out)
    /\ Len(Out.steps) >= 6
    /\ ~Out.steps[4].ok
    /\ Out.steps[Len(Out.steps)].ok
    /\ ~Out.ok

\* C9: an outcome carries an error exactly when ok is false, except the
\* already-initialized result of init_local_repo (ok = true with an INFO
\* error); no run_action outcome has ok = true together with an error.
C9_ErrorIffNotOk ==
    AnyReturned =>
        \/ IsSome(Out.error) <=> ~Out.ok
        \/ /\ pc = "init_returned"
           /\ Out.ok
           /\ IsSome(Out.error)
           /\ Out.error[1].severity = "INFO"
           /\ Out.error[1].code = Code("GIT", "0403")

\* C9 witness: init_local_repo has returned the already-initialized result
C9_Witness ==
    /\ pc = "init_returned"
    /\ Out.ok
    /\ IsSome(Out.error)

\* the case of C10: local pull, clean tree, every executed command succeeded
C10_Case ==
    /\ Returned
    /\ req.mode = "local"
    /\ req.action = "pull"
    /\ CleanStatus(Out.steps)
    /\ \A i \in 1..Len(Out.steps) : Out.steps[i].ok

StepIs(s, op, arg) == s.op = op /\ s.arg = arg

\* C10 as claimed: in the case above the trace is exactly the four steps
\* status, fetch origin, checkout B, pull --ff-only origin B.
C10_TraceIsFourSteps ==
    C10_Case =>
        /\ Len(Out.steps) = 4
        /\ StepIs(Out.steps[1], "status", <<>>)
        /\ StepIs(Out.steps[2], "fetch", <<>>)
        /\ StepIs(Out.steps[3], "checkout", req.branch)
        /\ StepIs(Out.steps[4], "pull", req.branch)
        /\ Out.ok

\* C10 (amended): in local mode, for a pull on a clean tree with target branch
\* B where every command succeeds, the trace is the two probe steps (branch
\* detection and head existence) followed by exactly status, fetch origin,
\* checkout B, pull --ff-only origin B in that order, and ok is the AND of
\* those six.
C10_TraceIsProbesThenFourSteps ==
    C10_Case =>
        /\ Len(Out.steps) = 6
        /\ {Out.steps[1].op, Out.steps[2].op} = {"symbolic-ref", "rev-parse"}
        /\ StepIs(Out.steps[3], "status", <<>>)
        /\ StepIs(Out.steps[4], "fetch", <<>>)
        /\ StepIs(Out.steps[5], "checkout", req.branch)
        /\ StepIs(Out.steps[6], "pull", req.branch)
        /\ Out.ok = \A i \in 1..6 : Out.steps[i].ok

\* C10 witness: such a pull has returned, with the tree on another branch
C10_Witness ==
    /\ C10_Case
    /\ Len(Out.steps) > 0
    /\ current_branch # req.branch

\* the case of C11: a local push, dirty tree on the target branch, non-blank
\* commit message
C11_Case ==
    /\ Returned
    /\ req.mode = "local"
    /\ req.action = "push"
    /\ DirtyStatus(Out.steps)
    /\ current_branch = req.branch
    /\ ~Blank(req.commit_message)

\* C11: in local mode, a push with a dirty tree on the target branch and a
\* non-blank commit message runs add -A, then commit -m with the (trimmed)
\* message, then fetch origin, checkout of the target and push origin of the
\* target, in that order and with nothing between or after them; ok is true
\* only if each of the five succeeded; a failed add or a failed commit is the
\* last step of the trace, which then holds no fetch.
C11_DirtyPushCommitsThenPushes ==
    C11_Case =>
        LET ss == Out.steps
            n == Len(ss)
            msg == trim(unwrap_or_default(req.commit_message))
        IN  \E i \in 1..n :
                /\ StepIs(ss[i], "add", <<>>)
                /\ IF ~ss[i].ok
                       THEN i = n /\ ~Out.ok /\ ~HasOp(ss, "fetch")
                       ELSE /\ i + 1 <= n
                            /\ StepIs(ss[i + 1], "commit", msg)
                            /\ IF ~ss[i + 1].ok
                                   THEN i + 1 = n /\ ~Out.ok /\ ~HasOp(ss, "fetch")
                                   ELSE /\ n = i + 4
                                        /\ StepIs(ss[i + 2], "fetch", <<>>)
                                        /\ StepIs(ss[i + 3], "checkout", req.branch)
                                        /\ StepIs(ss[i + 4], "push", req.branch)
                                        /\ Out.ok => \A j \in i..(i + 4) : ss[j].ok

\* C11 witness: such a push, its message sent with a blank before it, has
\* run all five steps and returned ok
C11_Witness ==
    /\ C11_Case
    /\ req.commit_message = Some(<<" ", "w">>)
    /\ HasOp(Out.steps, "push")
    /\ Out.ok

\* the source branch a merge request names
SourceBranch == trim(unwrap_or_default(req.merge_from_branch))

\* C12: a merge with a non-blank source branch S and target T that has come
\* to its tail ends its trace with fetch origin S, then merge --no-ff of S
\* (local mode) or of origin/S (ssh mode), then push origin T, the push being
\* there whether or not the merge succeeded.
C12_MergeTailFetchMergePush ==
    (/\ Returned
     /\ req.action = "merge"
     /\ req.mode \in {"local", "ssh"}
     /\ ~Blank(req.merge_from_branch)
     /\ HasOp(Out.steps, "checkout"))
    => LET ss == Out.steps
           n == Len(ss)
           origin_S == <<"o", "r", "i", "g", "i", "n", "/">> \o SourceBranch
           fetch_arg == IF req.mode = "ssh" THEN shell_escape_posix_single(SourceBranch)
                        ELSE SourceBranch
           merge_arg == IF req.mode = "ssh" THEN shell_escape_posix_single(origin_S)
                        ELSE SourceBranch
       IN  /\ n >= 3
           /\ StepIs(ss[n - 2], "fetch", fetch_arg)
           /\ StepIs(ss[n - 1], "merge", merge_arg)
           /\ StepIs(ss[n], "push", TargetArg)

\* init_local_repo is called, with git found and a local_path given, on a
\* directory that holds a .git marker
InitOnRepository ==
    /\ pc = "idle"
    /\ pc' = "init_returned"
    /\ fs = "repo"
    /\ init_args'.git_found
    /\ trim(init_args'.local_path) # <<>>

\* the commands init_local_repo runs through git
InitGitOps == {"init", "symbolic-ref HEAD", "remote", "remote add origin", "remote set-url origin"}

\* C13: init_local_repo on a directory that already holds a .git marker
\* returns ok = true with an error of severity INFO and a trace of exactly
\* one step, the synthetic skip step; no git command is in the trace, and the
\* directory, HEAD and origin are what they were, whatever default branch and
\* origin URL were supplied.
C13_AlreadyInitializedIsSkipped ==
    [][InitOnRepository =>
          LET o == outcome'[1] IN
          /\ o.ok
          /\ IsSome(o.error)
          /\ o.error[1].severity = "INFO"
          /\ Len(o.steps) = 1
          /\ o.steps[1].op = "[skip] already initialized"
          /\ o.steps[1].ok
          /\ o.steps[1].op \notin InitGitOps
          /\ fs' = fs
          /\ HEAD' = HEAD
          /\ origin' = origin]_vars

\* C13 witness: the already-initialized result has been returned to a call
\* that supplied a default branch other than the one HEAD is on and an
\* origin URL the repository does not have
C13_Witness ==
    /\ pc = "init_returned"
    /\ Out.ok
    /\ IsSome(Out.error)
    /\ Out.error[1].code = Code("GIT", "0403")
    /\ init_args.default_branch = Some(<<"d">>)
    /\ HEAD # Some(<<"d">>)
    /\ init_args.repo_url = Some(<<"u">>)
    /\ origin # Some(<<"u">>)

\* C14: when the branch-detection step fails, run_action returns at once in
\* both modes: the outcome is Failed with the error of its mode, and the
\* trace is that failed step alone, with no head-existence probe, status
\* query, stash, commit, fetch, checkout or tail step.
C14_BranchDetectionFailureIsFatal ==
    Returned =>
        \A i \in 1..Len(Out.steps) :
            (Out.steps[i].op = "symbolic-ref" /\ ~Out.steps[i].ok)
            => /\ ~Out.ok
               /\ IsSome(Out.error)
               /\ ErrCode = IF req.mode = "local" THEN Code("GIT", "0100")
                             ELSE Code("SSH", "0201")
               /\ Len(Out.steps) = 1

\* C14 witness: an ssh run has returned on a failed branch detection
C14_Witness ==
    /\ Returned
    /\ req.mode = "ssh"
    /\ Len(Out.steps) = 1
    /\ Out.steps[1].op = "symbolic-ref"
    /\ ~Out.steps[1].ok

\* the outcome carries the error code c
ErrIs(c) == IsSome(Out.error) /\ ErrCode = c

\* the run made the empty commit or asked for its message
EmptyCommitBlockEntered ==
    HasOp(Out.steps, "commit --allow-empty") \/ ErrIs(Code("GIT", "0107"))

\* the dirty tree was committed
DirtyCommitMade == \E i \in 1..Len(Out.steps) : Out.steps[i].op = "commit" /\ Out.steps[i].ok

\* C15: a failed head-existence probe never stops the run: the status query
\* follows it in the trace. What it changes in the sequence is, for push
\* only, the commit-message check and the empty commit: they happen on a
\* clean tree, they do not happen once the dirty tree has been committed, and
\* they never happen for pull or merge or when the probe succeeded.
C15_FailedHeadProbeOnlySetsFlag ==
    Returned =>
        LET ss == Out.steps IN
        /\ \A i \in 1..Len(ss) :
               (ss[i].op = "rev-parse" /\ ~ss[i].ok)
               => \E j \in (i + 1)..Len(ss) : ss[j].op = "status"
        /\ (NoCommits(ss) /\ req.action = "push" /\ CleanStatus(ss))
               => EmptyCommitBlockEntered
        /\ (NoCommits(ss) /\ req.action = "push" /\ DirtyCommitMade)
               => ~EmptyCommitBlockEntered
        /\ (~NoCommits(ss) \/ req.action # "push") => ~EmptyCommitBlockEntered

\* C15 witness: a push on a repository without commits has made the empty
\* commit and gone on to the push
C15_Witness ==
    /\ Returned
    /\ req.action = "push"
    /\ NoCommits(Out.steps)
    /\ HasOp(Out.steps, "commit --allow-empty")
    /\ HasOp(Out.steps, "push")

\* the steps that can only follow the status query
AfterStatusOps ==
    {"stash", "add", "commit", "commit --allow-empty", "fetch", "checkout", "pull", "merge",
     "push"}

\* C16: when the status query fails, run_action returns at once in both
\* modes: the outcome is Failed with the error of its mode, the failed status
\* step is the last entry of the trace, and no stash, add, commit, fetch,
\* checkout or tail step is in it. When the query succeeds, the tree is taken
\* as clean exactly when its output, trimmed, is empty.
C16_StatusFailureIsFatal ==
    /\ Returned =>
           \A i \in 1..Len(Out.steps) :
               (Out.steps[i].op = "status" /\ ~Out.steps[i].ok)
               => /\ i = Len(Out.steps)
                  /\ ~Out.ok
                  /\ ErrIs(IF req.mode = "local" THEN Code("GIT", "0101")
                           ELSE Code("SSH", "0201"))
                  /\ \A op \in AfterStatusOps : ~HasOp(Out.steps, op)
    /\ \A i \in 1..Len(steps) :
           (steps[i].op = "status" /\ steps[i].ok)
           => (clean <=> trim(steps[i].stdout) = <<>>)

\* C16 witness: a local run has returned on a failed status query
C16_Witness ==
    /\ Returned
    /\ req.mode = "local"
    /\ Len(Out.steps) = 3
    /\ Out.steps[3].op = "status"
    /\ ~Out.steps[3].ok
    /\ ErrIs(Code("GIT", "0101"))

\* C17: once the status query has succeeded, the trace holds a stash step
\* exactly when the action is pull or merge and the tree is dirty, and it
\* holds at most one; the success flag of a stash step is true when its
\* output reports a saved working directory, whatever its exit status, and
\* is the success of the process otherwise.
C17_StashOnlyWhenDirtyAndLenient ==
    Returned =>
        LET ss == Out.steps IN
        /\ (CleanStatus(ss) \/ DirtyStatus(ss))
               => (HasOp(ss, "stash") <=> (req.action \in {"pull", "merge"} /\ DirtyStatus(ss)))
        /\ ~(CleanStatus(ss) \/ DirtyStatus(ss)) => ~HasOp(ss, "stash")
        /\ \A i, j \in 1..Len(ss) : (ss[i].op = "stash" /\ ss[j].op = "stash") => i = j
        /\ \A i \in 1..Len(ss) :
               ss[i].op = "stash"
               => (ss[i].ok <=> (contains(ss[i].stdout, SavedWorkingDirectory)
                                 \/ ss[i].exit_code = 0))

\* C17 witness: a run whose only non-zero exit is a stash that saved the
\* working directory has ended with ok = true
C17_Witness ==
    /\ Returned
    /\ Out.ok
    /\ Out.error = None
    /\ \E i \in 1..Len(Out.steps) :
           /\ Out.steps[i].op = "stash"
           /\ Out.steps[i].exit_code # 0
           /\ \A j \in 1..Len(Out.steps) : j # i => Out.steps[j].exit_code = 0

\* C18: every outcome of run_action carries the environment key of the
\* request, on every path: rejected request, failed check, short-circuit
\* failure, and the end of the run.
C18_EnvKeyEchoed ==
    Returned => Out.env_key = req.env_key

\* C18 witness: a run for the second environment key has stopped on a dirty
\* tree on another branch
C18_Witness ==
    /\ Returned
    /\ req.env_key = "prod"
    /\ Out.env_key = "prod"
    /\ DirtyStatus(Out.steps)
    /\ IsSome(Out.error)
    /\ ~ReachedDone(Out)

\* C19: in every ActionOutcome the mode field is "local" or "ssh" and the
\* action field is one of "init", "pull", "push", "merge", the outcomes
\* returned for rejected requests included.
C19_ModeAndActionInRange ==
    AnyReturned =>
        /\ Out.mode \in {"local", "ssh"}
        /\ Out.action \in {"init", "pull", "push", "merge"}

\* the severity of the error an outcome carries
Severity == Out.error[1].severity

\* the codes of the two executable checks
NotFoundCodes == {Code("GIT", "0001"), Code("SSH", "0001")}

\* C20: an outcome carries severity FATAL exactly when the executable its
\* mode needs was not found (git for local mode and for init, ssh for ssh
\* mode); every other failing outcome carries ERROR; INFO is carried only by
\* the already-initialized result of init, which is not a failure; WARN is
\* carried by none.
C20_SeverityTaxonomy ==
    (AnyReturned /\ IsSome(Out.error)) =>
        /\ Severity \in {"FATAL", "ERROR", "INFO"}
        /\ Severity = "FATAL" <=> ErrCode \in NotFoundCodes
        /\ ErrCode = Code("GIT", "0001") => Out.mode = "local"
        /\ ErrCode = Code("SSH", "0001") => Out.mode = "ssh"
        /\ pc = "init_returned" => (Severity = "FATAL" <=> ~init_args.git_found)
        /\ (~Out.ok /\ ErrCode \notin NotFoundCodes) => Severity = "ERROR"
        /\ Severity = "INFO" <=> (pc = "init_returned" /\ ErrCode = Code("GIT", "0403"))
        /\ Severity = "INFO" => Out.ok

\* C20 witness: an ssh request has been refused because ssh was not found
C20_Witness ==
    /\ Returned
    /\ req.mode = "ssh"
    /\ ErrIs(Code("SSH", "0001"))
    /\ Severity = "FATAL"
    /\ Out.steps = <<>>

\* the reply of the ssh_connect call that has just returned
Connected == pc = "tool_returned" /\ reply.fn = "ssh_connect"
Wire == reply.ret

\* C21: ssh_connect reports ok = true only when both phases succeeded. The
\* liveness phase succeeds only if ssh was found, host and user are given,
\* the echo command exited with success and its output contains the
\* sentinel; when it does not, no remote git discovery is run, remote_git is
\* 'not checked' and ssh_ok is false. In every result ok implies ssh_ok and
\* remote_git.ok, remote_git.ok implies remote_git.found, and stderr is
\* absent exactly when ok is true.
C21_ConnectNeedsBothPhases ==
    Connected =>
        LET a == reply.arg
            ping == reply.env.ping
            alive == /\ a.ssh_found
                     /\ trim(a.host) # <<>>
                     /\ trim(a.user) # <<>>
                     /\ ping.exit_code = 0
                     /\ \E i \in 1..(Len(ping.stdout) - Len(Sentinel) + 1) :
                            SubSeq(ping.stdout, i, i + Len(Sentinel) - 1) = Sentinel
        IN  /\ Wire.ssh_ok <=> alive
            /\ ~alive => /\ Wire.remote_git.error = Some(<<"remote git not checked">>)
                          /\ ~Wire.remote_git.ok
                          /\ ~Wire.remote_git.found
                          /\ \A i \in 1..Len(Wire.ran) : Wire.ran[i] = "echo"
            /\ Wire.ok => (Wire.ssh_ok /\ Wire.remote_git.ok)
            /\ Wire.ok <=> (alive /\ Wire.ran = <<"echo", "find", "version">>
                                  /\ reply.env.find.exit_code = 0
                                  /\ reply.env.ver.exit_code = 0)
            /\ Wire.remote_git.ok => Wire.remote_git.found
            /\ (Wire.stderr = None) <=> Wire.ok

\* C21 witness: the echo command exited with success without printing the
\* sentinel, and the connection was reported as failed
C21_Witness ==
    /\ Connected
    /\ reply.arg.ssh_found
    /\ reply.arg.host = <<"h">>
    /\ reply.arg.user = <<"h">>
    /\ reply.env.ping.exit_code = 0
    /\ reply.env.ping.stdout = <<"h", "i", "\n">>
    /\ ~Wire.ok
    /\ ~Wire.ssh_ok
    /\ Wire.ran = <<"echo">>

\* C22: for every text s (with single quotes, backslashes, blanks or shell
\* metacharacters in it), a POSIX shell reads shell_escape_posix_single(s)
\* as exactly one word, and that word is s.
C22_ShellEscapeRoundTrip ==
    (pc = "tool_returned" /\ reply.fn = "sh")
    => /\ Len(reply.ret) = 1
       /\ reply.ret[1] = reply.escaped

\* C22 witness: a text made of a quote, a backslash and a metacharacter has
\* been escaped and read back
C22_Witness ==
    /\ pc = "tool_returned"
    /\ reply.fn = "sh"
    /\ reply.escaped = <<"'", "\\", "$">>
    /\ reply.ret = <<reply.escaped>>

Listed == pc = "tool_returned" /\ reply.fn = "list_branches"

\* line reads <sha> TAB refs/heads/ name, with a name that is not empty
IsHeadLine(line, name) ==
    \E k \in 1..Len(line) :
        /\ line[k] = "\t"
        /\ \A j \in 1..(k - 1) : line[j] # "\t"
        /\ Len(line) > k + 1
        /\ line[k + 1] = "refs/heads/"
        /\ name = SubSeq(line, k + 2, Len(line))

\* the branch names that the lines of an ls-remote output name
NamedHeads(out) ==
    LET ls == lines(out)
        ends == UNION {{SubSeq(ls[i], k, Len(ls[i])) : k \in 1..(Len(ls[i]) + 1)} : i \in DOMAIN ls}
    IN  {n \in ends : \E i \in DOMAIN ls : IsHeadLine(ls[i], n)}

\* C23: when git is found and ls-remote succeeds, list_branches returns
\* exactly the non-empty names of the lines <sha> TAB refs/heads/<name>, each
\* name once, in ascending lexicographic order; lines without a tab or with
\* another kind of ref add nothing.
C23_BranchesAreSortedSetOfHeads ==
    (Listed /\ reply.git_found /\ reply.step.ok)
    => LET out == reply.ret.branches IN
       /\ reply.ret.ok
       /\ {out[i] : i \in DOMAIN out} = NamedHeads(reply.step.stdout)
       /\ \A i, j \in DOMAIN out : i < j => text_lt(out[i], out[j])

\* C23 witness: an output that names head a twice and then head B is listed
\* as B, a
C23_Witness ==
    /\ Listed
    /\ reply.git_found
    /\ reply.step.ok
    /\ lines(reply.step.stdout)
           = << <<"9", "\t", "refs/heads/", "a">>,
                <<"9", "\t", "refs/heads/", "a">>,
                <<"9", "\t", "refs/heads/", "B">> >>
    /\ reply.ret.branches = << <<"B">>, <<"a">> >>

Launched == pc = "tool_returned" /\ reply.fn \in {"run_capture", "ssh_run"}

\* the number a text of decimal digits stands for, -1 when it is not one
RECURSIVE digits_value(_)
digits_value(t) ==
    LET ds == <<"0", "1", "2", "3", "4", "5", "6", "7", "8", "9">>
        c == t[Len(t)]
        front == SubSeq(t, 1, Len(t) - 1)
    IN  IF t = <<>> \/ ~(\E v \in 1..10 : ds[v] = c) THEN -1
        ELSE IF front = <<>> THEN (CHOOSE v \in 1..10 : ds[v] = c) - 1
        ELSE IF digits_value(front) = -1 THEN -1
        ELSE 10 * digits_value(front) + (CHOOSE v \in 1..10 : ds[v] = c) - 1

\* the options of an ssh launch: the arguments before user@host
SshOptions(l) == SubSeq(l.args, 1, Len(l.args) - 3)

Occurrences(seq, x) == Cardinality({i \in DOMAIN seq : seq[i] = x})

\* C24: every launched process has its standard input bound to the null
\* device and GIT_TERMINAL_PROMPT=0 in its environment; every ssh launch has
\* BatchMode=yes, ConnectTimeout=5 and ConnectionAttempts=1 each given once
\* as -o options, -p with the configured port or 22 when none is configured,
\* and -i with the key path exactly when a non-blank key path is configured.
C24_NonInteractiveGuards ==
    Launched
    => LET l == reply.ret IN
       /\ l.stdin = "null"
       /\ <<"GIT_TERMINAL_PROMPT", "0">> \in l.env
       /\ reply.fn = "ssh_run"
          => LET o == SshOptions(l)
                 k == reply.cfg.key_path
                 keyed == IsSome(k) /\ \E i \in DOMAIN k[1] : ~IsWhite(k[1][i])
             IN
             /\ \A x \in {<<"BatchMode=yes">>, <<"ConnectTimeout=5">>, <<"ConnectionAttempts=1">>} :
                    /\ Occurrences(o, x) = 1
                    /\ \E i \in DOMAIN o : i > 1 /\ o[i] = x /\ o[i - 1] = <<"-o">>
             /\ Occurrences(o, <<"-p">>) = 1
             /\ \E i \in DOMAIN o :
                    /\ i > 1 /\ o[i - 1] = <<"-p">>
                    /\ digits_value(o[i]) = (IF IsSome(reply.cfg.port) THEN reply.cfg.port[1] ELSE 22)
             /\ Occurrences(o, <<"-i">>) = (IF keyed THEN 1 ELSE 0)
             /\ keyed => \E i \in DOMAIN o : i > 1 /\ o[i - 1] = <<"-i">> /\ o[i] = k[1]

\* C24 witness: an ssh step launched with no port and a blank key path
\* configured
C24_Witness ==
    /\ Launched
    /\ reply.fn = "ssh_run"
    /\ reply.cfg.port = None
    /\ reply.cfg.key_path = Some(<<" ">>)
    /\ Len(reply.ret.args) = 11

\* C25: in a returned trace the branch-detection step, which every run
\* executes before the head-existence step, also stands before it, in local
\* mode as in ssh mode.
C25_BranchDetectionPrecedesHeadProbe ==
    Returned
    => \A i, j \in DOMAIN Out.steps :
           (Out.steps[i].op = "rev-parse" /\ Out.steps[j].op = "symbolic-ref") => j < i

\* a call of run_action is in progress
Running ==
    pc \notin {"idle", "returned", "init_returned", "tool_returned", "escaped"}

\* the results of the commands run so far: the trace, and in local mode the
\* branch-detection result that is held back until the head probe has run
Kept ==
    IF pc = "returned" THEN Out.steps
    ELSE IF pc = "l_head" THEN Append(steps, br_step)
    ELSE steps

\* the places where a command is run whatever the state
AlwaysRuns ==
    {"l_branch", "l_head", "l_status", "l_add", "l_commit", "l_fetch", "l_checkout",
     "s_branch", "s_head", "s_status", "s_add", "s_commit", "s_fetch", "s_checkout"}

\* the steps whose failure ends the run
FatalOps == {"symbolic-ref", "status", "add", "commit", "commit --allow-empty"}

\* C26: no step of run_action loses a result: what was run so far is kept,
\* each command that is run adds its result, and the outcome returned holds
\* them all, also when the run returns early; and a failed branch detection,
\* status, add, commit or empty commit is the last entry of the returned
\* trace.
C26_TraceKeepsEveryStep ==
    /\ [](Returned
           => \A i \in DOMAIN Out.steps :
                  (Out.steps[i].op \in FatalOps /\ ~Out.steps[i].ok) => i = Len(Out.steps))
    /\ [][Running
           => /\ \A i \in DOMAIN Kept : Occurrences(Kept, Kept[i]) <= Occurrences(Kept', Kept[i])
              /\ Len(Kept') <= Len(Kept) + 1
              /\ pc \in AlwaysRuns => Len(Kept') = Len(Kept) + 1]_vars

\* C26 witness: a local run returned early on a failed status query, with
\* the head probe, the branch detection and the failed status in its trace
C26_Witness ==
    /\ Returned
    /\ Out.mode = "local"
    /\ Len(Out.steps) = 3
    /\ Out.steps[1].op = "rev-parse"
    /\ Out.steps[2].op = "symbolic-ref"
    /\ Out.steps[3].op = "status"
    /\ ~Out.steps[3].ok
    /\ ErrIs(Code("GIT", "0101"))

\* init_local_repo is called, with git found and a local_path given, on a
\* path that is missing or a directory without a .git marker
InitOnPlainDirectory ==
    /\ pc = "idle"
    /\ pc' = "init_returned"
    /\ fs \in {"missing", "dir"}
    /\ init_args'.git_found
    /\ trim(init_args'.local_path) # <<>>

\* The call that is returning has run, in this order: the directory creation
\* when the path was missing, and nothing more when that failed; git init;
\* symbolic-ref HEAD refs/heads/<requested default branch, else main> (when
\* blank_too is false, only for a branch name that is not blank); and for an
\* origin URL that is not blank the remote listing and then set-url when the
\* listing succeeded and lists origin, add otherwise. ok is the AND of the
\* steps.
InitRunIs(blank_too) ==
    LET o == outcome'[1]
        a == init_args'
        mk == IF fs = "missing" THEN <<"mkdir -p">> ELSE <<>>
        want == IF IsSome(a.default_branch) THEN trim(a.default_branch[1])
                ELSE <<"m", "a", "i", "n">>
        ref == IF blank_too \/ want # <<>> THEN <<"symbolic-ref HEAD">> ELSE <<>>
        head == mk \o <<"init">> \o ref
        n == Len(head)
        url == IsSome(a.repo_url) /\ \E i \in DOMAIN a.repo_url[1] : ~IsWhite(a.repo_url[1][i])
    IN  IF fs = "missing" /\ ~o.steps[1].ok
            THEN /\ Len(o.steps) = 1
                 /\ o.steps[1].op = "mkdir -p"
                 /\ ~o.ok
            ELSE /\ Len(o.steps) >= n
                 /\ \A i \in 1..n : o.steps[i].op = head[i]
                 /\ ref # <<>> => o.steps[n].arg = <<"refs/heads/">> \o want
                 /\ IF url
                        THEN /\ Len(o.steps) = n + 2
                             /\ o.steps[n + 1].op = "remote"
                             /\ o.steps[n + 2].op =
                                    (IF /\ o.steps[n + 1].ok
                                        /\ \E i \in DOMAIN lines(o.steps[n + 1].stdout) :
                                               lines(o.steps[n + 1].stdout)[i] = <<"origin">>
                                        THEN "remote set-url origin"
                                        ELSE "remote add origin")
                        ELSE Len(o.steps) = n
                 /\ o.ok = (\A i \in DOMAIN o.steps : o.steps[i].ok)

\* C27 as claimed: on a directory without a .git marker init_local_repo runs
\* the directory creation if needed, git init, symbolic-ref HEAD
\* refs/heads/<requested default branch or main>, and for a non-blank origin
\* URL the remote listing and one of set-url and add; whatever default branch
\* is requested.
C27_InitRunsInitRefRemote ==
    [][InitOnPlainDirectory => InitRunIs(TRUE)]_vars

\* C27 (amended): as claimed, except that the symbolic-ref step is run only
\* when the requested default branch is not blank: a blank one leaves HEAD
\* where git init put it and the trace goes from git init to the remote
\* steps.
C27_InitRunsInitRefUnlessBlankRemote ==
    [][InitOnPlainDirectory => InitRunIs(FALSE)]_vars

\* C27 witness: init_local_repo has created the directory and run git init,
\* symbolic-ref, the remote listing and remote add
C27_Witness ==
    /\ pc = "init_returned"
    /\ Len(Out.steps) = 5
    /\ Out.steps[1].op = "mkdir -p"
    /\ Out.steps[3].op = "symbolic-ref HEAD"
    /\ Out.steps[5].op = "remote add origin"
    /\ ~Out.steps[4].ok
    /\ ~Out.ok

\* a push has returned right after a successful status query that found the
\* tree dirty: one of the two checks of the dirty push has failed
DirtyPushRefused ==
    /\ Returned
    /\ req.action = "push"
    /\ ~Out.ok
    /\ Out.steps # <<>>
    /\ Out.steps[Len(Out.steps)].op = "status"
    /\ Out.steps[Len(Out.steps)].ok
    /\ ~clean

\* the two failure points of the dirty push
DirtyOnOtherBranch == DirtyPushRefused /\ current_branch # req.branch
MessageRequired == DirtyPushRefused /\ current_branch = req.branch

\* C28: 'dirty on a different branch' and 'commit message required for a
\* dirty push' each have one error code, the same in local and in ssh mode
\* (GIT-0103 and GIT-0104, as local mode has them), and a code names one
\* failure point: GIT-0103 and GIT-0104 are returned for nothing else, and
\* SSH-0201, the code of a failed remote branch detection, only for that.
C28_OneCodePerFailurePoint ==
    (Returned /\ IsSome(Out.error))
    => /\ DirtyOnOtherBranch <=> ErrIs(Code("GIT", "0103"))
       /\ MessageRequired <=> ErrIs(Code("GIT", "0104"))
       /\ ErrIs(Code("SSH", "0201"))
           => Out.steps[Len(Out.steps)].op = "symbolic-ref"

\* the commands that probe and prepare the working tree, and those that
\* synchronise it with origin
PrepareOps == {"symbolic-ref", "rev-parse", "status", "stash", "add", "commit", "commit --allow-empty"}
SyncOps == {"fetch", "checkout", "pull", "merge", "push"}

\* C29: a local run and an ssh run of the same request with the same results
\* execute the same sequence of logical commands and end at the same point.
\* Both modes then follow the one sequence of the orchestrator: probes,
\* status, stash or commit of the dirty tree, empty commit on a repository
\* without commits, and only then fetch, checkout and the tail of the action:
\* in no mode does a run prepare the tree after it has fetched.
C29_ModesRunOneSequence ==
    (Returned /\ req.mode \in {"local", "ssh"})
    => \A i, j \in DOMAIN Out.steps :
           (i < j /\ Out.steps[i].op \in SyncOps) => Out.steps[j].op \notin PrepareOps

\* C30: a failed head-existence probe is recorded when it is made, stays
\* among the results of the run up to the returned trace, and makes the
\* outcome fail: no run whose probe failed returns ok = true, not even a push
\* whose empty commit, fetch, checkout and push all succeeded.
C30_FailedHeadProbeFailsTheRun ==
    /\ []((Returned /\ NoCommits(Out.steps)) => ~Out.ok)
    /\ [][(pc \in {"l_head", "s_head"} /\ ~has_commits') => NoCommits(Kept')]_vars
    /\ [][(Running /\ NoCommits(Kept)) => NoCommits(Kept')]_vars

\* C30 witness: a push to a repository without commits has returned failed
\* although the probe is its only failed step: the empty commit, fetch,
\* checkout and push succeeded
C30_Witness ==
    /\ Returned
    /\ req.action = "push"
    /\ ~Out.ok
    /\ \A i \in DOMAIN Out.steps : Out.steps[i].ok <=> Out.steps[i].op # "rev-parse"
    /\ \A op \in {"rev-parse", "commit --allow-empty", "fetch", "checkout", "push"} :
           HasOp(Out.steps, op)

\* init_local_repo has been repeated with the same arguments
Retried == pc = "init_returned" /\ IsSome(earlier)

\* the first call failed although its git init step succeeded
FailedAfterInit(o) ==
    /\ ~o.ok
    /\ \E i \in DOMAIN o.steps : o.steps[i].op = "init" /\ o.steps[i].ok

\* C31: when a call of init_local_repo fails after its git init step
\* succeeded, the same call repeated returns ok = true with the INFO
\* 'already initialized' error and a trace without symbolic-ref or remote
\* step, and leaves HEAD and origin as the failed call left them: what the
\* failed call did not configure stays unconfigured.
C31_RetryAfterPartialInitIsSkipped ==
    [][(/\ pc = "init_returned"
        /\ pc' = "init_returned"
        /\ init_args' = init_args
        /\ FailedAfterInit(Out))
       => LET o == outcome'[1] IN
          /\ earlier' = outcome
          /\ o.ok
          /\ IsSome(o.error)
          /\ o.error[1].severity = "INFO"
          /\ o.error[1].code = Code("GIT", "0403")
          /\ \A i \in DOMAIN o.steps :
                 o.steps[i].op \notin {"init", "symbolic-ref HEAD", "remote",
                                       "remote add origin", "remote set-url origin"}
          /\ HEAD' = HEAD
          /\ origin' = origin]_vars

\* C31 witness: a call that asked for default branch d and origin u failed
\* after git init, was repeated and returned 'already initialized', with
\* HEAD not on d and origin not u
C31_Witness ==
    /\ Retried
    /\ FailedAfterInit(earlier[1])
    /\ Out.ok
    /\ init_args.default_branch = Some(<<"d">>)
    /\ init_args.repo_url = Some(<<"u">>)
    /\ HEAD # Some(<<"d">>)
    /\ origin # Some(<<"u">>)

\* the generic command-failed code of the mode of the request
GenericCode == IF req.mode = "ssh" THEN Code("SSH", "0200") ELSE Code("GIT", "0002")

\* the logical commands of the tail of the action
TailOf(action) ==
    IF action = "pull" THEN <<"pull">>
    ELSE IF action = "merge" THEN <<"fetch", "merge", "push">>
    ELSE <<"push">>

\* C32: a stash step that failed is followed in the returned trace by fetch,
\* checkout and the tail of the action (pull, or fetch of the source, merge
\* and push), run on the tree that is still dirty, and the run ends with
\* ok = false and the generic command-failed code of its mode.
C32_FailedStashDoesNotStopTheRun ==
    (Returned /\ req.mode \in {"local", "ssh"})
    => \A i \in DOMAIN Out.steps :
           (Out.steps[i].op = "stash" /\ ~Out.steps[i].ok)
           => LET rest == <<"fetch", "checkout">> \o TailOf(req.action) IN
              /\ ~clean
              /\ Len(Out.steps) = i + Len(rest)
              /\ \A k \in DOMAIN rest : Out.steps[i + k].op = rest[k]
              /\ ~Out.ok
              /\ ErrIs(GenericCode)

\* C33: no run executes a stash pop or a stash apply, and once the stash step
\* of a pull or merge has saved the changes of a dirty tree, no later step
\* of the run takes them out of the stash: they are there when the outcome
\* is returned, with ok true or false.
C33_StashIsNeverRestored ==
    Returned
    => /\ \A i \in DOMAIN Out.steps : Out.steps[i].op \notin {"stash pop", "stash apply"}
       /\ \A i, j \in DOMAIN Out.steps :
              (/\ i < j
               /\ Out.steps[i].op = "stash"
               /\ contains(Out.steps[i].stdout, SavedWorkingDirectory))
              => Out.steps[j].op \in {"fetch", "checkout", "pull", "merge", "push"}

\* C33 witness: a pull on a dirty tree has returned failed, its failed pull
\* being the last step, after a stash that saved the changes
C33_Witness ==
    /\ Returned
    /\ req.action = "pull"
    /\ ~Out.ok
    /\ HasSavedStash(Out.steps)
    /\ Out.steps[Len(Out.steps)].op = "pull"
    /\ ~Out.steps[Len(Out.steps)].ok

\* C34: in a returned trace a pull or merge has no add and no commit step
\* (dirty-tree commit or empty commit), a push has no stash step, and a push
\* holds at most one successful commit: no empty commit step is in a trace
\* whose dirty-tree commit succeeded.
C34_ActionsKeepToTheirSteps ==
    (Returned /\ req.mode \in {"local", "ssh"})
    => LET ss == Out.steps IN
       /\ req.action \in {"pull", "merge"}
              => \A i \in DOMAIN ss : ss[i].op \notin {"add", "commit", "commit --allow-empty"}
       /\ req.action = "push" => ~HasOp(ss, "stash")
       /\ DirtyCommitMade => ~HasOp(ss, "commit --allow-empty")
       /\ Cardinality({i \in DOMAIN ss :
                          ss[i].op \in {"commit", "commit --allow-empty"} /\ ss[i].ok}) <= 1

\* C34 witness: a push on a repository without commits has committed its
\* dirty tree and pushed, without an empty commit
C34_Witness ==
    /\ Returned
    /\ req.action = "push"
    /\ NoCommits(Out.steps)
    /\ DirtyCommitMade
    /\ HasOp(Out.steps, "push")
    /\ ~HasOp(Out.steps, "commit --allow-empty")

\* C35: every call of run_action, each of its commands returning, comes to
\* return an outcome; it executes at most 9 steps; and once the outcome is
\* returned nothing more happens in the call: the next thing is a new call.
C35_EveryRunReturns ==
    /\ (Running ~> Returned)
    /\ [](Len(steps) <= 9)
    /\ [](Returned => (IsSome(outcome) /\ Out.steps = steps))
    /\ [][Returned => (pc' = "idle" /\ steps' = <<>> /\ outcome' = None)]_vars

\* C35 witness: a merge on a dirty tree has returned after nine steps
C35_Witness ==
    /\ Returned
    /\ req.action = "merge"
    /\ Len(Out.steps) = 9
    /\ Out.steps[4].op = "stash"
    /\ Out.steps[9].op = "push"


\* the push has seen a dirty tree at its status check and has not yet run add
PushBetweenStatusAndAdd ==
    /\ race # NoRace
    /\ race.run["push"].pc \in {"l_dirty_push", "l_add"}
    /\ ~race.run["push"].clean

\* the pull has not returned
PullInProgress == race # NoRace /\ race.run["pull"].pc # "returned"

\* the pull takes its next step
PullSteps == RaceNext /\ race' # NoRace /\ race'.run["pull"] # race.run["pull"]

\* the pull runs git stash
PullStashes ==
    /\ race # NoRace
    /\ race.run["pull"].pc = "l_stash"
    /\ race' # NoRace
    /\ race'.run["pull"].pc # "l_stash"

\* C36: run_action does not serialize runs on one working tree.  While a push
\* that saw a dirty tree is between its status check and its add, a pull in
\* progress can still take its next step; when that step is the pull's stash,
\* the tree is cleaned and the changes are stashed under the push, whose
\* position, clean flag and trace stay as they were; and the push then runs
\* add whatever the tree has become.
C36_RunsAreNotSerialized ==
    /\ []((PushBetweenStatusAndAdd /\ PullInProgress) => ENABLED PullSteps)
    /\ [][(PushBetweenStatusAndAdd /\ PullStashes) =>
              /\ race'.run["push"] = race.run["push"]
              /\ race'.tree = "clean"
              /\ (race.tree # "clean" => race'.stashed = race.stashed + 1)]_vars
    /\ []((race # NoRace /\ race.run["push"].pc = "l_add") =>
              (~race.run["push"].clean /\ ENABLED RaceAdd))

\* C36 witness: both runs saw the dirty tree at their status checks, the
\* pull's stash saved the changes, and the push's add then found a clean tree
C36_Witness ==
    /\ race # NoRace
    /\ Len(race.run["push"].steps) >= 2
    /\ race.run["push"].steps[1].op = "status"
    /\ race.run["push"].found[1] = "dirty"
    /\ race.run["push"].steps[2].op = "add"
    /\ race.run["push"].found[2] = "clean"
    /\ ~race.run["push"].clean
    /\ Len(race.run["pull"].steps) >= 2
    /\ race.run["pull"].found[1] = "dirty"
    /\ HasSavedStash(race.run["pull"].steps)
    /\ race.run["pull"].found[2] = "dirty"
    /\ race.stashed = 1

====
